---- MODULE Spec2Model ----
(***************************************************************************)
(* Model of the binary-tree diameter visualiser (LeetCode 543).            *)
(*                                                                         *)
(* The pipeline of App's useMemo is modelled function by function:         *)
(*   buildTreeFromArray  (level-order array -> linked TreeNode objects)    *)
(*   convertToD3Tree     (TreeNode objects  -> decorated D3TreeNode objects)*)
(*   generateAlgorithmSteps (decorated tree -> step sequence)              *)
(* Objects live in heaps (sequences of records); a reference is the index  *)
(* of the object in its heap, and NoNode is the null reference.            *)
(* Node ids, animation types and payload strings are the strings of the    *)
(* source.  The display texts of a step (description, variables) are       *)
(* derived from the fields modelled here and are left out.                 *)
(***************************************************************************)
EXTENDS Integers, Sequences, FiniteSets, TLC

VARIABLES
  treeData,    \* the level-order array handed to the pipeline
  tree,        \* [heap, root]: the TreeNode objects built from treeData
  d3Tree,      \* [heap, root]: the decorated tree built from tree
  steps,       \* result of the latest generateAlgorithmSteps(d3Tree)
  firstSteps,  \* result of the first generateAlgorithmSteps(d3Tree)
  otherData,   \* array of another tree the generator was called on, or <<>>
  closure,     \* locals of the most recent generator invocation, at its return
  pc,          \* position of the caller in the pipeline
  isValid,     \* result of validateTreeArray(treeData), once it has been called
  currentStepIndex, \* App state: index of the step on display
  isPlaying,   \* App state: auto-play is on
  memoDeps,    \* the treeData the useMemo result (d3Tree, steps) was computed for
  pending,     \* state updates queued by handlers and not yet rendered
  timer,       \* the interval of the playback effect and the steps.length it captured
  effectsDue,  \* a commit changed the effect's dependencies; the effect has not run yet
  loop,        \* buildTreeFromArray's queue and i inside its while loop, with what it read
  inputValue,  \* InputPanel state: the text of the input field
  error        \* InputPanel state: the error message on display, if any

\* the state of the App component and of React around it
appVars ==
  <<currentStepIndex, isPlaying, memoDeps, pending, timer, effectsDue, inputValue, error>>

vars == <<treeData, tree, d3Tree, steps, firstSteps, otherData, closure, pc, isValid, appVars, loop>>

---------------------------------------------------------------------------
(* Values of the source language *)

\* `null` as an entry of a (number | null)[] array or as a node value
Null == -1000
\* the null object reference (TreeNode | null, D3TreeNode | null)
NoNode == 0
\* `null` where a string id is expected (currentNodeId, parentId)
NullId == "null"
\* `undefined`: an optional field or parameter that was not given
Undefined == "undefined"

Max(a, b) == IF a >= b THEN a ELSE b
Min(a, b) == IF a <= b THEN a ELSE b

---------------------------------------------------------------------------
(* Bounds of the model *)

\* longest array enumerated exhaustively
MaxLen == 4
\* entries of the enumerated arrays: two admissible values, one value above
\* the admitted range, and null
Entries == {1, 2, 101, Null}

DEFAULT_DATA == <<1, 2, 3, 4, 5>>
SAMPLE_DATA ==
  << <<1, 2, 3, 4, 5>>,
     <<1, 2>>,
     <<1, 2, 3, 4, 5, 6, 7>>,
     <<1, 2, Null, 3, Null, 4>>,
     <<1, Null, 2, Null, 3, Null, 4>> >>

BoundedArrays == UNION {[1..n -> Entries] : n \in 0..MaxLen}
Inputs == BoundedArrays \cup {SAMPLE_DATA[k] : k \in 1..Len(SAMPLE_DATA)} \cup {DEFAULT_DATA}

---------------------------------------------------------------------------
(* treeUtils: validateTreeArray *)

MAX_VALUE == 100
MIN_VALUE == -100
MAX_LENGTH == 10000

\* validateTreeArray with the limits of the range excluded (<= and >=)
validateTreeArrayExclusiveRange(arr) ==
  IF Len(arr) = 0 THEN FALSE
  ELSE IF arr[1] = Null THEN FALSE
  ELSE IF \E k \in 1..Len(arr) :
            arr[k] # Null /\ (arr[k] <= MIN_VALUE \/ arr[k] >= MAX_VALUE) THEN FALSE
  ELSE IF Len(arr) > MAX_LENGTH THEN FALSE
  ELSE TRUE

validateTreeArray(arr) ==
  IF Len(arr) = 0 THEN FALSE
  ELSE IF arr[1] = Null THEN FALSE
  ELSE IF \E k \in 1..Len(arr) :
            arr[k] # Null /\ (arr[k] < MIN_VALUE \/ arr[k] > MAX_VALUE) THEN FALSE
  ELSE IF Len(arr) > MAX_LENGTH THEN FALSE
  ELSE TRUE

---------------------------------------------------------------------------
(* treeUtils: buildTreeFromArray *)

NewTreeNode(v) == [val |-> v, left |-> NoNode, right |-> NoNode]

RECURSIVE BuildLoop(_, _, _, _)

\* the loop with one i++ only: the right child is read from the entry after
\* the left one, and so is the left child of the next node
BuildLoopSingleIncrement(heap, queue, i, arr) ==
  IF ~(Len(queue) > 0 /\ i < Len(arr)) THEN heap
  ELSE
    LET node == Head(queue)
        q0 == Tail(queue)
        hasLeft == i < Len(arr) /\ arr[i + 1] # Null
        leftRef == Len(heap) + 1
        h1 == IF hasLeft
              THEN Append([heap EXCEPT ![node].left = leftRef], NewTreeNode(arr[i + 1]))
              ELSE heap
        q1 == IF hasLeft THEN Append(q0, leftRef) ELSE q0
        i1 == i + 1
        hasRight == i1 < Len(arr) /\ arr[i1 + 1] # Null
        rightRef == Len(h1) + 1
        h2 == IF hasRight
              THEN Append([h1 EXCEPT ![node].right = rightRef], NewTreeNode(arr[i1 + 1]))
              ELSE h1
        q2 == IF hasRight THEN Append(q1, rightRef) ELSE q1
    IN BuildLoop(h2, q2, i1, arr)

\* One evaluation of the while loop's condition and, if it holds, its body.
\* i is the 0-based index of the source; arr[i] there is arr[i + 1] here.
BuildLoop(heap, queue, i, arr) ==
  IF ~(Len(queue) > 0 /\ i < Len(arr)) THEN heap
  ELSE
    LET node == Head(queue)
        q0 == Tail(queue)
        hasLeft == i < Len(arr) /\ arr[i + 1] # Null
        leftRef == Len(heap) + 1
        h1 == IF hasLeft
              THEN Append([heap EXCEPT ![node].left = leftRef], NewTreeNode(arr[i + 1]))
              ELSE heap
        q1 == IF hasLeft THEN Append(q0, leftRef) ELSE q0
        i1 == i + 1
        hasRight == i1 < Len(arr) /\ arr[i1 + 1] # Null
        rightRef == Len(h1) + 1
        h2 == IF hasRight
              THEN Append([h1 EXCEPT ![node].right = rightRef], NewTreeNode(arr[i1 + 1]))
              ELSE h1
        q2 == IF hasRight THEN Append(q1, rightRef) ELSE q1
        i2 == i1 + 1
    IN BuildLoop(h2, q2, i2, arr)

\* buildTreeFromArray without the test of a null root entry
buildTreeIgnoringNullRoot(arr) ==
  IF Len(arr) = 0
  THEN [heap |-> <<>>, root |-> NoNode]
  ELSE [heap |-> BuildLoop(<<NewTreeNode(arr[1])>>, <<1>>, 1, arr), root |-> 1]

buildTreeFromArray(arr) ==
  IF Len(arr) = 0 \/ arr[1] = Null
  THEN [heap |-> <<>>, root |-> NoNode]
  ELSE [heap |-> BuildLoop(<<NewTreeNode(arr[1])>>, <<1>>, 1, arr), root |-> 1]

---------------------------------------------------------------------------
(* treeUtils: convertToD3Tree *)

NewD3Node(id, v, parent, depth, isNull) ==
  [id |-> id, val |-> v, x |-> 0, y |-> 0, left |-> NoNode, right |-> NoNode,
   parent |-> parent, depth |-> depth, highlighted |-> FALSE,
   isOnDiameterPath |-> FALSE, isNull |-> isNull]

\* the left child's id built with the marker of the right child
LeftIdWithRightMarker(id) == id \o "-R"

LeftId(id) == id \o "-L"
RightId(id) == id \o "-R"

RECURSIVE convertToD3Tree(_, _, _, _, _, _, _)

\* convertToD3Tree without the leaf test: the children of a leaf are
\* converted like those of any other node
convertToD3TreeNoLeafTest(d3, t, node, id, depth, parent, includeNullNodes) ==
  IF node = NoNode THEN
    IF includeNullNodes /\ parent # NoNode /\ ~d3[parent].isNull
    THEN [heap |-> Append(d3, NewD3Node(id, Null, parent, depth, TRUE)),
          ref |-> Len(d3) + 1]
    ELSE [heap |-> d3, ref |-> NoNode]
  ELSE
    LET self == Len(d3) + 1
        h0 == Append(d3, NewD3Node(id, t[node].val, parent, depth, FALSE))
        l == convertToD3Tree(h0, t, t[node].left, LeftId(id), depth + 1,
                             self, includeNullNodes)
        h1 == [l.heap EXCEPT ![self].left = l.ref]
        r == convertToD3Tree(h1, t, t[node].right, RightId(id), depth + 1,
                             self, includeNullNodes)
        h2 == [r.heap EXCEPT ![self].right = r.ref]
    IN [heap |-> h2, ref |-> self]

\* d3 is the heap of decorated nodes allocated so far, t the TreeNode heap.
\* The result is the heap after the call and the reference it returns.
convertToD3Tree(d3, t, node, id, depth, parent, includeNullNodes) ==
  IF node = NoNode THEN
    IF includeNullNodes /\ parent # NoNode /\ ~d3[parent].isNull
    THEN [heap |-> Append(d3, NewD3Node(id, Null, parent, depth, TRUE)),
          ref |-> Len(d3) + 1]
    ELSE [heap |-> d3, ref |-> NoNode]
  ELSE
    LET self == Len(d3) + 1
        h0 == Append(d3, NewD3Node(id, t[node].val, parent, depth, FALSE))
        hasLeftChild == t[node].left # NoNode
        hasRightChild == t[node].right # NoNode
        isLeaf == ~hasLeftChild /\ ~hasRightChild
    IN IF isLeaf THEN [heap |-> h0, ref |-> self]
       ELSE
         LET l == convertToD3Tree(h0, t, t[node].left, LeftId(id), depth + 1,
                                  self, includeNullNodes)
             h1 == [l.heap EXCEPT ![self].left = l.ref]
             r == convertToD3Tree(h1, t, t[node].right, RightId(id), depth + 1,
                                  self, includeNullNodes)
             h2 == [r.heap EXCEPT ![self].right = r.ref]
         IN [heap |-> h2, ref |-> self]

\* convertToD3Tree(tree) as App calls it: every default argument
DecorateDefault(tr) ==
  LET r == convertToD3Tree(<<>>, tr.heap, tr.root, "0", 0, NoNode, TRUE)
  IN [heap |-> r.heap, root |-> r.ref]

---------------------------------------------------------------------------
(* diameterAlgorithm: createStep *)

createStep(stepIndex, currentNodeId, highlightedNodes, highlightedEdges, diameterPath, currentDiameter, codeLineNumber, animationType, animationData, leftDepth, rightDepth) ==
  [stepIndex |-> stepIndex,
   currentNodeId |-> currentNodeId,
   highlightedNodes |-> highlightedNodes,
   highlightedEdges |-> highlightedEdges,
   diameterPath |-> diameterPath,
   currentDiameter |-> currentDiameter,
   codeLineNumber |-> codeLineNumber,
   animationType |-> IF animationType = Undefined THEN "none" ELSE animationType,
   animationData |-> animationData,
   leftDepth |-> leftDepth,
   rightDepth |-> rightDepth]

---------------------------------------------------------------------------
(* diameterAlgorithm: generateAlgorithmSteps *)

\* the locals kept at module level: an invocation starts from what the
\* invocation before it left behind
LeakyLocalState ==
  [steps |-> <<>>, stepIndex |-> closure.stepIndex,
   globalDiameter |-> closure.globalDiameter,
   diameterPath |-> closure.diameterPath]

\* The locals every invocation declares before it emits anything.
LocalState ==
  [steps |-> <<>>, stepIndex |-> 0, globalDiameter |-> 0, diameterPath |-> <<>>]

\* steps.push(createStep(stepIndex++, ...)): step was built with st.stepIndex
Push(st, step) ==
  [st EXCEPT !.steps = Append(@, step), !.stepIndex = @ + 1]

\* e, evaluated once the locals st have been evaluated: statements run in
\* program order, whereas an operator's argument is evaluated only at its
\* first use
After(st, e) == IF st.stepIndex >= 0 THEN e ELSE e

\* String(v) / `${v}` of a node value
ValStr(v) == IF v = Null THEN "null" ELSE ToString(v)

\* parentId || undefined
OrUndefined(id) == IF id = NullId THEN Undefined ELSE id

\* child ? [[node.id, child.id]] : []
EdgeTo(d3, n, child) ==
  IF child # NoNode THEN << <<n.id, d3[child].id>> >> ELSE <<>>

\* child?.id
OptId(d3, child) == IF child # NoNode THEN d3[child].id ELSE Undefined

\* child ? `node=${child.val}` : 'null'
ChildArg(d3, child) ==
  IF child # NoNode THEN "node=" \o ValStr(d3[child].val) ELSE "null"

InitStep(st) ==
  createStep(st.stepIndex, NullId, <<>>, <<>>, <<>>, 0, 2,
             Undefined, Undefined, Undefined, Undefined)

EmptyTreeStep(st) ==
  createStep(st.stepIndex, NullId, <<>>, <<>>, <<>>, 0, 5,
             Undefined, Undefined, Undefined, Undefined)

\* the step announcing the call into the root without an animation
RootCallStepNoAnimation(st, root) ==
  createStep(st.stepIndex, root.id, <<root.id>>, <<>>, <<>>, 0, 4,
             Undefined, Undefined, Undefined, Undefined)

RootCallStep(st, root) ==
  createStep(st.stepIndex, root.id, <<root.id>>, <<>>, <<>>, 0, 4,
             "param-pass",
             [toNodeId |-> root.id, value |-> "node=" \o ValStr(root.val)],
             Undefined, Undefined)

\* the absent-node step numbered with ++stepIndex instead of stepIndex++
NullNodeStepPreIncrement(st, path, parentId) ==
  createStep(st.stepIndex + 1, NullId, path, <<>>, st.diameterPath,
             st.globalDiameter, 10, "return-value",
             [fromNodeId |-> OrUndefined(parentId), value |-> 0],
             Undefined, Undefined)

\* the absent-node step with the literal 0 as currentDiameter and an empty
\* diameterPath
NullNodeStepZeroDiameter(st, path, parentId) ==
  createStep(st.stepIndex, NullId, path, <<>>, <<>>,
             0, 10, "return-value",
             [fromNodeId |-> OrUndefined(parentId), value |-> 0],
             Undefined, Undefined)

NullNodeStep(st, path, parentId) ==
  createStep(st.stepIndex, NullId, path, <<>>, st.diameterPath,
             st.globalDiameter, 10, "return-value",
             [fromNodeId |-> OrUndefined(parentId), value |-> 0],
             Undefined, Undefined)

EnterStep(st, n, currentPath) ==
  createStep(st.stepIndex, n.id, currentPath, <<>>, st.diameterPath,
             st.globalDiameter, 9, "recursion-enter",
             [toNodeId |-> n.id, value |-> n.val],
             Undefined, Undefined)

\* the step before the recursive call on child; line is 13 (left) or 14 (right)
ParamPassStep(d3, st, n, child, currentPath, line) ==
  createStep(st.stepIndex, n.id, currentPath, EdgeTo(d3, n, child),
             st.diameterPath, st.globalDiameter, line, "param-pass",
             [fromNodeId |-> n.id, toNodeId |-> OptId(d3, child),
              value |-> ChildArg(d3, child)],
             Undefined, Undefined)

\* the return-value step carrying the depth of the node, not of its child
ReturnValueStepOwnDepth(d3, st, n, child, currentPath, childDepth, line) ==
  createStep(st.stepIndex, n.id, currentPath, EdgeTo(d3, n, child),
             st.diameterPath, st.globalDiameter, line, "return-value",
             [fromNodeId |-> OptId(d3, child), toNodeId |-> n.id,
              value |-> childDepth + 1],
             Undefined, Undefined)

\* the step after the recursive call on child returned childDepth
ReturnValueStep(d3, st, n, child, currentPath, childDepth, line) ==
  createStep(st.stepIndex, n.id, currentPath, EdgeTo(d3, n, child),
             st.diameterPath, st.globalDiameter, line, "return-value",
             [fromNodeId |-> OptId(d3, child), toNodeId |-> n.id,
              value |-> childDepth],
             Undefined, Undefined)

\* shouldUpdate with !== in place of >
ShouldUpdateOnDifference(newDiameter, globalDiameter) ==
  newDiameter # globalDiameter

\* shouldUpdate with >= in place of >
ShouldUpdateOnTie(newDiameter, globalDiameter) == newDiameter >= globalDiameter

\* const shouldUpdate = newDiameter > globalDiameter
ShouldUpdate(newDiameter, globalDiameter) == newDiameter > globalDiameter

\* compareResult: shouldUpdate ? '>' : '≤'   (the latter written "<=" here)
CompareSymbol(shouldUpdate) == IF shouldUpdate THEN ">" ELSE "<="

CompareStep(st, n, currentPath, newDiameter, oldDiameter, shouldUpdate) ==
  createStep(st.stepIndex, n.id, currentPath, <<>>, st.diameterPath,
             st.globalDiameter, 16, "compare",
             [compareLeft |-> newDiameter, compareRight |-> oldDiameter,
              compareResult |-> CompareSymbol(shouldUpdate)],
             Undefined, Undefined)

\* if (shouldUpdate) { globalDiameter = newDiameter;
\*                     diameterPath.length = 0; diameterPath.push(node.id) }
ApplyUpdate(st, shouldUpdate, newDiameter, id) ==
  IF shouldUpdate
  THEN [st EXCEPT !.globalDiameter = newDiameter, !.diameterPath = <<id>>]
  ELSE st

UpdateStep(st, n, currentPath, leftDepth, rightDepth) ==
  createStep(st.stepIndex, n.id, currentPath, <<>>, st.diameterPath,
             st.globalDiameter, 16, "update-diameter",
             [value |-> st.globalDiameter],
             leftDepth, rightDepth)

DepthStep(st, n, currentPath, leftDepth, rightDepth) ==
  createStep(st.stepIndex, n.id, currentPath, <<>>, st.diameterPath,
             st.globalDiameter, 18, "compare",
             [compareLeft |-> leftDepth, compareRight |-> rightDepth,
              compareResult |-> "max=" \o ToString(Max(leftDepth, rightDepth))],
             Undefined, Undefined)

\* the exit step attributed to the parent the value returns to
ExitStepAtParent(st, n, currentPath, parentId, depth) ==
  createStep(st.stepIndex, parentId, currentPath, <<>>, st.diameterPath,
             st.globalDiameter, 18, "recursion-exit",
             [fromNodeId |-> n.id, toNodeId |-> OrUndefined(parentId),
              value |-> depth],
             Undefined, Undefined)

ExitStep(st, n, currentPath, parentId, depth) ==
  createStep(st.stepIndex, n.id, currentPath, <<>>, st.diameterPath,
             st.globalDiameter, 18, "recursion-exit",
             [fromNodeId |-> n.id, toNodeId |-> OrUndefined(parentId),
              value |-> depth],
             Undefined, Undefined)

\* the epilogue with the running best updated before the compare step is built
EpilogueUpdateFirst(st, n, currentPath, parentId, leftDepth, rightDepth) ==
  After(st,
  LET newDiameter == leftDepth + rightDepth
      oldDiameter == st.globalDiameter
      shouldUpdate == newDiameter > st.globalDiameter
      s0 == IF shouldUpdate
            THEN [st EXCEPT !.globalDiameter = newDiameter, !.diameterPath = <<n.id>>]
            ELSE st
      s1 == Push(s0, createStep(s0.stepIndex, n.id, currentPath, <<>>,
                  s0.diameterPath, s0.globalDiameter, 16, "compare",
                  [compareLeft |-> newDiameter, compareRight |-> oldDiameter,
                   compareResult |-> IF shouldUpdate THEN ">" ELSE "<="],
                  Undefined, Undefined))
      s3 == Push(s1, createStep(s1.stepIndex, n.id, currentPath, <<>>,
                  s1.diameterPath, s1.globalDiameter, 16, "update-diameter",
                  [value |-> s1.globalDiameter], leftDepth, rightDepth))
      depth == Max(leftDepth, rightDepth) + 1
      s4 == Push(s3, createStep(s3.stepIndex, n.id, currentPath, <<>>,
                  s3.diameterPath, s3.globalDiameter, 18, "compare",
                  [compareLeft |-> leftDepth, compareRight |-> rightDepth,
                   compareResult |-> "max=" \o ToString(Max(leftDepth, rightDepth))],
                  Undefined, Undefined))
      s5 == Push(s4, createStep(s4.stepIndex, n.id, currentPath, <<>>,
                  s4.diameterPath, s4.globalDiameter, 18, "recursion-exit",
                  [fromNodeId |-> n.id, toNodeId |-> OrUndefined(parentId),
                   value |-> depth],
                  Undefined, Undefined))
  IN [st |-> s5, depth |-> depth])

\* the epilogue returning the smaller of the two depths plus 1
EpilogueMinDepth(st, n, currentPath, parentId, leftDepth, rightDepth) ==
  After(st,
  LET newDiameter == leftDepth + rightDepth
      oldDiameter == st.globalDiameter
      shouldUpdate == ShouldUpdate(newDiameter, st.globalDiameter)
      s1 == Push(st, CompareStep(st, n, currentPath, newDiameter, oldDiameter,
                                 shouldUpdate))
      s2 == ApplyUpdate(s1, shouldUpdate, newDiameter, n.id)
      s3 == Push(s2, UpdateStep(s2, n, currentPath, leftDepth, rightDepth))
      depth == (IF leftDepth <= rightDepth THEN leftDepth ELSE rightDepth) + 1
      s4 == Push(s3, DepthStep(s3, n, currentPath, leftDepth, rightDepth))
      s5 == Push(s4, ExitStep(s4, n, currentPath, parentId, depth))
  IN [st |-> s5, depth |-> depth])

\* the epilogue with the update-diameter step only when the diameter grew
EpilogueStepOnlyOnUpdate(st, n, currentPath, parentId, leftDepth, rightDepth) ==
  After(st,
  LET newDiameter == leftDepth + rightDepth
      oldDiameter == st.globalDiameter
      shouldUpdate == ShouldUpdate(newDiameter, st.globalDiameter)
      s1 == Push(st, CompareStep(st, n, currentPath, newDiameter, oldDiameter,
                                 shouldUpdate))
      s2 == ApplyUpdate(s1, shouldUpdate, newDiameter, n.id)
      s3 == IF shouldUpdate
            THEN Push(s2, UpdateStep(s2, n, currentPath, leftDepth, rightDepth))
            ELSE s2
      depth == Max(leftDepth, rightDepth) + 1
      s4 == Push(s3, DepthStep(s3, n, currentPath, leftDepth, rightDepth))
      s5 == Push(s4, ExitStep(s4, n, currentPath, parentId, depth))
  IN [st |-> s5, depth |-> depth])

\* Lines 281-361 of processNode: everything after both recursive calls.
\* The result is the locals after the node's last step and the depth returned.
Epilogue(st, n, currentPath, parentId, leftDepth, rightDepth) ==
  After(st,
  LET newDiameter == leftDepth + rightDepth
      oldDiameter == st.globalDiameter
      shouldUpdate == ShouldUpdate(newDiameter, st.globalDiameter)
      s1 == Push(st, CompareStep(st, n, currentPath, newDiameter, oldDiameter,
                                 shouldUpdate))
      s2 == ApplyUpdate(s1, shouldUpdate, newDiameter, n.id)
      s3 == Push(s2, UpdateStep(s2, n, currentPath, leftDepth, rightDepth))
      depth == Max(leftDepth, rightDepth) + 1
      s4 == Push(s3, DepthStep(s3, n, currentPath, leftDepth, rightDepth))
      s5 == Push(s4, ExitStep(s4, n, currentPath, parentId, depth))
  IN [st |-> s5, depth |-> depth])

RECURSIVE processNode(_, _, _, _, _)

\* the call of a child with the param-pass step left out when the child is absent
CallChildSkippingAbsent(d3, n, child, currentPath, line, st) ==
  After(st,
  LET s1 == IF child = NoNode THEN st
            ELSE Push(st, ParamPassStep(d3, st, n, child, currentPath, line))
      c == processNode(d3, child, currentPath, n.id, s1)
      s2 == Push(c.st, ReturnValueStep(d3, c.st, n, child, currentPath,
                                       c.depth, line))
  IN [st |-> s2, depth |-> c.depth])

\* Lines 205-240 (child = node.left, line 13) and 242-279 (child = node.right,
\* line 14): the param-pass step, the recursive call and the return-value step.
CallChild(d3, n, child, currentPath, line, st) ==
  After(st,
  LET s1 == Push(st, ParamPassStep(d3, st, n, child, currentPath, line))
      c == processNode(d3, child, currentPath, n.id, s1)
      s2 == Push(c.st, ReturnValueStep(d3, c.st, n, child, currentPath,
                                       c.depth, line))
  IN [st |-> s2, depth |-> c.depth])

\* processNode with the right child called before the left child
processNodeRightFirst(d3, node, path, parentId, st) ==
  After(st,
  IF node = NoNode
  THEN [st |-> Push(st, NullNodeStep(st, path, parentId)), depth |-> 0]
  ELSE
    LET n == d3[node]
        currentPath == Append(path, n.id)
        s1 == Push(st, EnterStep(st, n, currentPath))
        r == CallChild(d3, n, n.right, currentPath, 14, s1)
        l == CallChild(d3, n, n.left, currentPath, 13, r.st)
    IN After(r.st, After(l.st,
         Epilogue(l.st, n, currentPath, parentId, l.depth, r.depth))))

\* processNode with currentPath = [node.id]: the path to the parent is dropped
processNodePathDropped(d3, node, path, parentId, st) ==
  After(st,
  IF node = NoNode
  THEN [st |-> Push(st, NullNodeStep(st, path, parentId)), depth |-> 0]
  ELSE
    LET n == d3[node]
        currentPath == <<n.id>>
        s1 == Push(st, EnterStep(st, n, currentPath))
        l == CallChild(d3, n, n.left, currentPath, 13, s1)
        r == CallChild(d3, n, n.right, currentPath, 14, l.st)
    IN After(l.st, After(r.st,
         Epilogue(r.st, n, currentPath, parentId, l.depth, r.depth))))

\* processNode(node, path, parentId) with the closure's locals passed as st;
\* the result is the locals after the call and the depth returned
processNode(d3, node, path, parentId, st) ==
  After(st,
  IF node = NoNode
  THEN [st |-> Push(st, NullNodeStep(st, path, parentId)), depth |-> 0]
  ELSE
    LET n == d3[node]
        currentPath == Append(path, n.id)
        s1 == Push(st, EnterStep(st, n, currentPath))
        l == CallChild(d3, n, n.left, currentPath, 13, s1)
        r == CallChild(d3, n, n.right, currentPath, 14, l.st)
    IN After(l.st, After(r.st,
         Epilogue(r.st, n, currentPath, parentId, l.depth, r.depth))))

TerminalStep(st) ==
  createStep(st.stepIndex, NullId, <<>>, <<>>, st.diameterPath,
             st.globalDiameter, 5, Undefined, Undefined, Undefined, Undefined)

\* generateAlgorithmSteps(root): the locals at the return; .steps is the result
generateAlgorithmSteps(d3, root) ==
  LET s0 == LocalState
      s1 == Push(s0, InitStep(s0))
  IN IF root = NoNode
     THEN Push(s1, EmptyTreeStep(s1))
     ELSE LET s2 == Push(s1, RootCallStep(s1, d3[root]))
              p == processNode(d3, root, <<>>, NullId, s2)
          IN Push(p.st, TerminalStep(p.st))

\* what of the locals is still there when the call has returned
LocalsOf(st) ==
  [stepIndex |-> st.stepIndex, globalDiameter |-> st.globalDiameter,
   diameterPath |-> st.diameterPath]

---------------------------------------------------------------------------
(* The caller: the pipeline of App's useMemo, run on one array, followed   *)
(* by further calls of the generator.                                      *)

NoTree == [heap |-> <<>>, root |-> NoNode]

\* no interval is registered
NoTimer == [active |-> FALSE, len |-> 0]

\* InputPanel's error: null, setError('输入格式错误...'), setError('数据无效...')
NoError == 0
FormatError == 1
InvalidError == 2

\* the App component is not mounted
AppIdle ==
  /\ inputValue = <<>>
  /\ error = NoError
  /\ currentStepIndex = 0
  /\ isPlaying = FALSE
  /\ memoDeps = <<>>
  /\ pending = <<>>
  /\ timer = NoTimer
  /\ effectsDue = FALSE

\* buildTreeFromArray is not running
NoLoop == [queue |-> <<>>, i |-> 0, read |-> {}, from |-> <<>>]

Init ==
  /\ treeData \in Inputs
  /\ tree = NoTree
  /\ d3Tree = NoTree
  /\ steps = <<>>
  /\ firstSteps = <<>>
  /\ otherData = <<>>
  /\ closure = [stepIndex |-> 0, globalDiameter |-> 0, diameterPath |-> <<>>]
  /\ pc = "input"
  /\ isValid = FALSE
  /\ AppIdle
  /\ loop = NoLoop

\* const tree = buildTreeFromArray(treeData)
Build ==
  /\ pc = "input"
  /\ tree' = buildTreeFromArray(treeData)
  /\ pc' = "built"
  /\ UNCHANGED <<treeData, d3Tree, steps, firstSteps, otherData, closure, isValid, appVars, loop>>

\* const d3Tree = convertToD3Tree(tree)
Decorate ==
  /\ pc = "built"
  /\ d3Tree' = DecorateDefault(tree)
  /\ pc' = "decorated"
  /\ UNCHANGED <<treeData, tree, steps, firstSteps, otherData, closure, isValid, appVars, loop>>

\* const steps = generateAlgorithmSteps(d3Tree)
Generate ==
  /\ pc = "decorated"
  /\ LET st == generateAlgorithmSteps(d3Tree.heap, d3Tree.root)
     IN /\ steps' = st.steps
        /\ firstSteps' = st.steps
        /\ closure' = LocalsOf(st)
  /\ pc' = "generated"
  /\ UNCHANGED <<treeData, tree, d3Tree, otherData, isValid, appVars, loop>>

\* a call of the generator on the decorated tree of one of the preset samples
GenerateOther ==
  /\ pc = "generated"
  /\ \E k \in 1..Len(SAMPLE_DATA) :
       /\ SAMPLE_DATA[k] # treeData
       /\ LET other == DecorateDefault(buildTreeFromArray(SAMPLE_DATA[k]))
              st == generateAlgorithmSteps(other.heap, other.root)
          IN closure' = LocalsOf(st)
       /\ otherData' = SAMPLE_DATA[k]
  /\ pc' = "other"
  /\ UNCHANGED <<treeData, tree, d3Tree, steps, firstSteps, isValid, appVars, loop>>

\* a second call of the generator on the same decorated tree
Regenerate ==
  /\ pc \in {"generated", "other"}
  /\ LET st == generateAlgorithmSteps(d3Tree.heap, d3Tree.root)
     IN /\ steps' = st.steps
        /\ closure' = LocalsOf(st)
  /\ pc' = "regenerated"
  /\ UNCHANGED <<treeData, tree, d3Tree, firstSteps, otherData, isValid, appVars, loop>>

Next == Build \/ Decorate \/ Generate \/ GenerateOther \/ Regenerate

Spec == Init /\ [][Next]_vars

---------------------------------------------------------------------------
---------------------------------------------------------------------------
(* validateTreeArray called on an array, as handleApply calls it on the    *)
(* parsed text                                                             *)

\* arrays at the limits of the admitted values and of the admitted length
LimitArrays ==
  {<<100>>, <<-100>>, <<101>>, <<-101>>, <<-100, Null, 100>>, <<1, Null, -101>>,
   <<1, 101>>, <<Null, 101>>, <<1, Null, Null>>,
   [k \in 1..MAX_LENGTH |-> 1], [k \in 1..(MAX_LENGTH + 1) |-> 1],
   [k \in 1..(MAX_LENGTH + 1) |-> IF k = 1 THEN Null ELSE 1]}

ValidateInit ==
  /\ treeData \in Inputs \cup LimitArrays
  /\ tree = NoTree
  /\ d3Tree = NoTree
  /\ steps = <<>>
  /\ firstSteps = <<>>
  /\ otherData = <<>>
  /\ closure = [stepIndex |-> 0, globalDiameter |-> 0, diameterPath |-> <<>>]
  /\ pc = "parsed"
  /\ isValid = FALSE
  /\ AppIdle
  /\ loop = NoLoop

\* validateTreeArray(parsed)
Validate ==
  /\ pc = "parsed"
  /\ isValid' = validateTreeArray(treeData)
  /\ pc' = "validated"
  /\ UNCHANGED <<treeData, tree, d3Tree, steps, firstSteps, otherData, closure, appVars, loop>>

ValidateSpec == ValidateInit /\ [][Validate]_vars

---------------------------------------------------------------------------
(* buildTreeFromArray statement by statement: the early return, the        *)
(* creation of the root and of the queue, and the while loop one iteration *)
(* at a time.  loop holds the queue and i, and in addition the indices of  *)
(* arr that were read (read) and, for each node object, the index of the   *)
(* entry it was created from (from).                                       *)

\* the index the test `i < arr.length && arr[i] !== null` reads, if any
ReadAt(arr, i) == IF i < Len(arr) THEN {i} ELSE {}

\* the body of the while loop with one i++ only
LoopBodySingleIncrement(heap, lp, arr) ==
  LET node == Head(lp.queue)
      q0 == Tail(lp.queue)
      i0 == lp.i
      hasLeft == i0 < Len(arr) /\ arr[i0 + 1] # Null
      leftRef == Len(heap) + 1
      h1 == IF hasLeft
            THEN Append([heap EXCEPT ![node].left = leftRef], NewTreeNode(arr[i0 + 1]))
            ELSE heap
      q1 == IF hasLeft THEN Append(q0, leftRef) ELSE q0
      f1 == IF hasLeft THEN Append(lp.from, i0) ELSE lp.from
      hasRight == i0 < Len(arr) /\ arr[i0 + 1] # Null
      rightRef == Len(h1) + 1
      h2 == IF hasRight
            THEN Append([h1 EXCEPT ![node].right = rightRef], NewTreeNode(arr[i0 + 1]))
            ELSE h1
      q2 == IF hasRight THEN Append(q1, rightRef) ELSE q1
      f2 == IF hasRight THEN Append(f1, i0) ELSE f1
  IN [heap |-> h2,
      loop |-> [queue |-> q2, i |-> i0 + 1,
                read |-> lp.read \cup ReadAt(arr, i0), from |-> f2]]

\* The body of the while loop: the heap and the loop's state after it.
LoopBody(heap, lp, arr) ==
  LET node == Head(lp.queue)
      q0 == Tail(lp.queue)
      i0 == lp.i
      hasLeft == i0 < Len(arr) /\ arr[i0 + 1] # Null
      leftRef == Len(heap) + 1
      h1 == IF hasLeft
            THEN Append([heap EXCEPT ![node].left = leftRef], NewTreeNode(arr[i0 + 1]))
            ELSE heap
      q1 == IF hasLeft THEN Append(q0, leftRef) ELSE q0
      f1 == IF hasLeft THEN Append(lp.from, i0) ELSE lp.from
      i1 == i0 + 1
      hasRight == i1 < Len(arr) /\ arr[i1 + 1] # Null
      rightRef == Len(h1) + 1
      h2 == IF hasRight
            THEN Append([h1 EXCEPT ![node].right = rightRef], NewTreeNode(arr[i1 + 1]))
            ELSE h1
      q2 == IF hasRight THEN Append(q1, rightRef) ELSE q1
      f2 == IF hasRight THEN Append(f1, i1) ELSE f1
      i2 == i1 + 1
  IN [heap |-> h2,
      loop |-> [queue |-> q2, i |-> i2,
                read |-> lp.read \cup ReadAt(arr, i0) \cup ReadAt(arr, i1),
                from |-> f2]]

\* !arr || arr.length === 0 || arr[0] === null
ReturnsEarly(arr) == IF Len(arr) = 0 THEN TRUE ELSE arr[1] = Null

\* what the statements of buildTreeFromArray leave alone
buildFrame ==
  <<treeData, d3Tree, steps, firstSteps, otherData, closure, isValid, appVars>>

BuildInit ==
  /\ treeData \in Inputs
  /\ tree = NoTree
  /\ d3Tree = NoTree
  /\ steps = <<>>
  /\ firstSteps = <<>>
  /\ otherData = <<>>
  /\ closure = [stepIndex |-> 0, globalDiameter |-> 0, diameterPath |-> <<>>]
  /\ pc = "call"
  /\ isValid = FALSE
  /\ AppIdle
  /\ loop = NoLoop

\* if (!arr || arr.length === 0 || arr[0] === null) return null
ReturnNull ==
  /\ pc = "call"
  /\ ReturnsEarly(treeData)
  /\ tree' = NoTree
  /\ loop' = [loop EXCEPT !.read = ReadAt(treeData, 0)]
  /\ pc' = "returned"
  /\ UNCHANGED buildFrame

\* const root = { val: arr[0], ... }; const queue = [root]; let i = 1
CreateRoot ==
  /\ pc = "call"
  /\ ~ReturnsEarly(treeData)
  /\ tree' = [heap |-> <<NewTreeNode(treeData[1])>>, root |-> 1]
  /\ loop' = [queue |-> <<1>>, i |-> 1, read |-> {0}, from |-> <<0>>]
  /\ pc' = "while"
  /\ UNCHANGED buildFrame

\* while (queue.length > 0 && i < arr.length) { ... }: the condition holds
LoopIteration ==
  /\ pc = "while"
  /\ Len(loop.queue) > 0 /\ loop.i < Len(treeData)
  /\ LET b == LoopBody(tree.heap, loop, treeData)
     IN /\ tree' = [tree EXCEPT !.heap = b.heap]
        /\ loop' = b.loop
  /\ UNCHANGED <<pc, buildFrame>>

\* the condition of the while loop fails: return root
LoopExit ==
  /\ pc = "while"
  /\ ~(Len(loop.queue) > 0 /\ loop.i < Len(treeData))
  /\ pc' = "returned"
  /\ UNCHANGED <<tree, loop, buildFrame>>

BuildNext == ReturnNull \/ CreateRoot \/ LoopIteration \/ LoopExit

BuildSpec == BuildInit /\ [][BuildNext]_vars

\* the function runs to its return: JavaScript runs a synchronous call
\* statement after statement without suspending it
BuildFairSpec == BuildSpec /\ WF_vars(BuildNext)

---------------------------------------------------------------------------
(* Text: a string is the sequence of its characters.  treeUtils:           *)
(* parseArrayInput, and JSON.stringify of a (number | null)[] array.       *)

Digits == <<"0", "1", "2", "3", "4", "5", "6", "7", "8", "9">>
IsDigit(c) == \E d \in 1..10 : Digits[d] = c
DigitValue(c) == (CHOOSE d \in 1..10 : Digits[d] = c) - 1

\* String.prototype.trim, for the blank as the only white space
RECURSIVE trimStart(_)
trimStart(s) == IF s # <<>> /\ Head(s) = " " THEN trimStart(Tail(s)) ELSE s
RECURSIVE trimEnd(_)
trimEnd(s) ==
  IF s # <<>> /\ s[Len(s)] = " " THEN trimEnd(SubSeq(s, 1, Len(s) - 1)) ELSE s
trim(s) == trimEnd(trimStart(s))

\* content.split(','): the parts between the commas, at least one
RECURSIVE split(_, _)
split(s, part) ==
  IF s = <<>> THEN <<part>>
  ELSE IF Head(s) = "," THEN <<part>> \o split(Tail(s), <<>>)
  ELSE split(Tail(s), Append(part, Head(s)))

\* the value of the longest prefix of digits of s, after the digits read so
\* far had the value acc
RECURSIVE digitsPrefix(_, _)
digitsPrefix(s, acc) ==
  IF s # <<>> /\ IsDigit(Head(s))
  THEN digitsPrefix(Tail(s), 10 * acc + DigitValue(Head(s)))
  ELSE acc

\* parseInt(part, 10): an optional sign and the longest prefix of digits;
\* NaN when no digit follows the sign
parseInt(part) ==
  LET s == trimStart(part)
      signed == s # <<>> /\ Head(s) \in {"-", "+"}
      body == IF signed THEN Tail(s) ELSE s
  IN IF body = <<>> \/ ~IsDigit(Head(body)) THEN [isNaN |-> TRUE, num |-> 0]
     ELSE [isNaN |-> FALSE,
           num |-> IF signed /\ Head(s) = "-" THEN 0 - digitsPrefix(body, 0)
                   ELSE digitsPrefix(body, 0)]

\* the loop over the parts: result is the array so far
RECURSIVE parseParts(_, _)
parseParts(parts, result) ==
  IF parts = <<>> THEN [isNull |-> FALSE, arr |-> result]
  ELSE LET part == Head(parts)
       IN IF part = <<"n", "u", "l", "l">> \/ part = <<>>
          THEN parseParts(Tail(parts), Append(result, Null))
          ELSE LET num == parseInt(part)
               IN IF num.isNaN THEN [isNull |-> TRUE, arr |-> <<>>]
                  ELSE parseParts(Tail(parts), Append(result, num.num))

\* parseArrayInput(input): isNull when it returns null, else the array
parseArrayInput(input) ==
  LET trimmed == trim(input)
  IN IF trimmed = <<>> \/ Head(trimmed) # "[" \/ trimmed[Len(trimmed)] # "]"
     THEN [isNull |-> TRUE, arr |-> <<>>]
     ELSE LET content == SubSeq(trimmed, 2, Len(trimmed) - 1)
          IN IF trim(content) = <<>> THEN [isNull |-> FALSE, arr |-> <<>>]
             ELSE LET parts == split(content, <<>>)
                  IN parseParts([k \in 1..Len(parts) |-> trim(parts[k])], <<>>)

\* String(n) of an integer
RECURSIVE NatChars(_)
NatChars(n) ==
  IF n < 10 THEN <<Digits[n + 1]>> ELSE Append(NatChars(n \div 10), Digits[(n % 10) + 1])
NumChars(n) == IF n < 0 THEN <<"-">> \o NatChars(0 - n) ELSE NatChars(n)

\* JSON.stringify(data) of a (number | null)[] array
RECURSIVE stringifyItems(_)
stringifyItems(data) ==
  IF data = <<>> THEN <<>>
  ELSE LET item == IF Head(data) = Null THEN <<"n", "u", "l", "l">> ELSE NumChars(Head(data))
       IN IF Len(data) = 1 THEN item ELSE item \o <<",">> \o stringifyItems(Tail(data))
stringify(data) == <<"[">> \o stringifyItems(data) \o <<"]">>

---------------------------------------------------------------------------
(* treeUtils: generateRandomTree.  A value of Math.random() is in          *)
(* thousandths (0..999 for 0 <= x < 1); the values it returns one after    *)
(* the other are those of seed, repeated.                                   *)

\* the value Math.random() returns after k earlier calls
Random(seed, k) == seed[(k % Len(seed)) + 1]

\* Math.floor(Math.random() * 201) - 100
RandomValue(r) == ((r * 201) \div 1000) - 100

\* the for loop from i on, after k calls of Math.random()
RECURSIVE randomLoop(_, _, _, _, _)
randomLoop(result, i, count, seed, k) ==
  IF ~(i < count) THEN result
  ELSE IF Random(seed, k) < 200 /\ i > 2
       THEN randomLoop(Append(result, Null), i + 1, count, seed, k + 1)
       ELSE randomLoop(Append(result, RandomValue(Random(seed, k + 1))),
                       i + 1, count, seed, k + 2)

\* generateRandomTree(nodeCount), called after k calls of Math.random()
generateRandomTree(nodeCount, seed, k) ==
  LET count == Min(Max(nodeCount, 1), 15)
  IN randomLoop(<<RandomValue(Random(seed, k))>>, 1, count, seed, k + 1)

---------------------------------------------------------------------------
(* The App component: its state (treeData, currentStepIndex, isPlaying),   *)
(* the useMemo pipeline, the playback effect with its interval, and the    *)
(* handlers, and the InputPanel component with its state (inputValue,      *)
(* error).  A handler or a timer callback only queues state updates; a     *)
(* render applies the queued updates in order and commits the new state    *)
(* together with the useMemo result.  The updates a handler queues are     *)
(* rendered before its event is over, in the handler's action; those of a  *)
(* timer callback wait for a render of their own.  The effect runs after a *)
(* commit that changed its dependencies, at the latest before the next     *)
(* render.                                                                 *)

\* most timer callbacks whose updates wait for a render
MaxPending == 1

\* the texts typed into the input field: " [2x, ] ", "[1,x]", "[,1]" and
\* "[1,-101]"
Texts ==
  {<<" ", "[", "2", "x", ",", " ", "]", " ">>,
   <<"[", "1", ",", "x", "]">>,
   <<"[", ",", "1", "]">>,
   <<"[", "1", ",", "-", "1", "0", "1", "]">>}

\* the values Math.random() returns during a click on the random button
RandomSeeds == {<<199, 999>>}

\* const nodeCount = Math.floor(Math.random() * 10) + 3;
\* const randomData = generateRandomTree(nodeCount)
RandomData(seed) ==
  generateRandomTree(((Random(seed, 0) * 10) \div 1000) + 3, seed, 1)

\* the arrays treeData can be set to if nothing stops them: the presets,
\* what parseArrayInput returns for the texts, and the random arrays
AppData ==
  {SAMPLE_DATA[k] : k \in 1..Len(SAMPLE_DATA)}
    \cup {parseArrayInput(t).arr : t \in Texts}
    \cup {RandomData(seed) : seed \in RandomSeeds}

\* the callback of useMemo for the array data
PipelineOf(data) ==
  LET t == buildTreeFromArray(data)
      d == DecorateDefault(t)
  IN [tree |-> t, d3Tree |-> d,
      steps |-> generateAlgorithmSteps(d.heap, d.root).steps]

\* what the callback returns for each array a data change can install,
\* tabulated once
MemoTable ==
  {[deps |-> data, value |-> PipelineOf(data)] : data \in AppData \cup {DEFAULT_DATA}}

Memo(data) == (CHOOSE m \in MemoTable : m.deps = data).value

\* a queued state update: a set-state call with its argument, or an updater
\* function with the steps.length its closure captured (n)
Upd(op, n, data) == [op |-> op, n |-> n, data |-> data]

\* updates queued by a discrete event are rendered before the next event
OnlyTicks(q) == \A k \in 1..Len(q) : q[k].op = "tick"

RECURSIVE ReduceIndex(_, _, _)

\* ReduceIndex whose timer updater goes back to 0 from the last index
ReduceIndexWrapping(q, p, stop) ==
  IF q = <<>> THEN [index |-> p, stop |-> stop]
  ELSE LET u == Head(q)
       IN IF u.op = "setIndex" THEN ReduceIndex(Tail(q), u.n, stop)
          ELSE IF u.op = "prev" THEN ReduceIndex(Tail(q), Max(0, p - 1), stop)
          ELSE IF u.op = "next" THEN ReduceIndex(Tail(q), Min(u.n - 1, p + 1), stop)
          ELSE IF u.op = "tick"
               THEN IF p >= u.n - 1
                    THEN ReduceIndex(Tail(q), 0, stop)
                    ELSE ReduceIndex(Tail(q), p + 1, stop)
          ELSE ReduceIndex(Tail(q), p, stop)

\* currentStepIndex after the queued updates q, starting from p; stop is
\* set when an updater of the timer called setIsPlaying(false)
ReduceIndex(q, p, stop) ==
  IF q = <<>> THEN [index |-> p, stop |-> stop]
  ELSE LET u == Head(q)
       IN IF u.op = "setIndex" THEN ReduceIndex(Tail(q), u.n, stop)
          ELSE IF u.op = "prev" THEN ReduceIndex(Tail(q), Max(0, p - 1), stop)
          ELSE IF u.op = "next" THEN ReduceIndex(Tail(q), Min(u.n - 1, p + 1), stop)
          ELSE IF u.op = "tick"
               THEN IF p >= u.n - 1
                    THEN ReduceIndex(Tail(q), p, TRUE)
                    ELSE ReduceIndex(Tail(q), p + 1, stop)
          ELSE ReduceIndex(Tail(q), p, stop)

\* isPlaying after the queued updates q, starting from b
RECURSIVE ReducePlaying(_, _)
ReducePlaying(q, b) ==
  IF q = <<>> THEN b
  ELSE LET u == Head(q)
       IN IF u.op = "setPlaying" THEN ReducePlaying(Tail(q), u.n = 1)
          ELSE IF u.op = "toggle" THEN ReducePlaying(Tail(q), ~b)
          ELSE ReducePlaying(Tail(q), b)

\* treeData after the queued updates q, starting from d
RECURSIVE ReduceData(_, _)
ReduceData(q, d) ==
  IF q = <<>> THEN d
  ELSE IF Head(q).op = "setTree" THEN ReduceData(Tail(q), Head(q).data)
       ELSE ReduceData(Tail(q), d)

\* inputValue after the queued updates q, starting from v
RECURSIVE ReduceInput(_, _)
ReduceInput(q, v) ==
  IF q = <<>> THEN v
  ELSE IF Head(q).op = "setInput" THEN ReduceInput(Tail(q), Head(q).data)
       ELSE ReduceInput(Tail(q), v)

\* error after the queued updates q, starting from e
RECURSIVE ReduceError(_, _)
ReduceError(q, e) ==
  IF q = <<>> THEN e
  ELSE IF Head(q).op = "setError" THEN ReduceError(Tail(q), Head(q).n)
       ELSE ReduceError(Tail(q), e)

\* the variables the App model leaves alone
pipelineVars == <<firstSteps, otherData, closure, pc, isValid, loop>>

\* the App after its first render with DEFAULT_DATA
AppInit ==
  /\ treeData = DEFAULT_DATA
  /\ currentStepIndex = 0
  /\ isPlaying = FALSE
  /\ memoDeps = DEFAULT_DATA
  /\ tree = Memo(DEFAULT_DATA).tree
  /\ d3Tree = Memo(DEFAULT_DATA).d3Tree
  /\ steps = Memo(DEFAULT_DATA).steps
  /\ pending = <<>>
  /\ timer = NoTimer
  /\ effectsDue = FALSE
  /\ firstSteps = <<>>
  /\ otherData = <<>>
  /\ closure = [stepIndex |-> 0, globalDiameter |-> 0, diameterPath |-> <<>>]
  /\ pc = "app"
  /\ isValid = FALSE
  /\ loop = NoLoop
  /\ inputValue = stringify(DEFAULT_DATA)
  /\ error = NoError

\* a handler of a click or of a key can run: only updates of timer
\* callbacks can be waiting, because the updates a handler queues are
\* rendered and committed before the handler's event is over
CanHandle == pc = "app" /\ OnlyTicks(pending)

\* what a timer callback leaves alone: it only queues an update
committed ==
  <<treeData, tree, d3Tree, steps, currentStepIndex, isPlaying, memoDeps,
    timer, effectsDue, inputValue, error, pipelineVars>>

\* the interval once the effects that are due have run: the cleanup clears
\* the interval, and if isPlaying a new interval is set whose callback sees
\* the steps of the render the effect belongs to
TimerAfterEffects ==
  IF ~effectsDue THEN timer
  ELSE IF isPlaying THEN [active |-> TRUE, len |-> Len(steps)] ELSE NoTimer

\* Commit with a useMemo that never recomputes (an empty dependency list)
CommitMemoNeverRecomputed(q) ==
  /\ LET r == ReduceIndex(q, currentStepIndex, FALSE)
         playing == ReducePlaying(q, isPlaying) /\ ~r.stop
     IN /\ treeData' = ReduceData(q, treeData)
        /\ currentStepIndex' = r.index
        /\ isPlaying' = playing
        /\ UNCHANGED <<memoDeps, tree, d3Tree, steps>>
        /\ effectsDue' = (playing # isPlaying)
  /\ inputValue' = ReduceInput(q, inputValue)
  /\ error' = ReduceError(q, error)
  /\ pending' = <<>>
  /\ timer' = TimerAfterEffects
  /\ UNCHANGED pipelineVars

\* A render of App and InputPanel and its commit: effects still due from
\* the commit before run first; the queued updates q are applied in order
\* (setIsPlaying(false) called inside the timer's updater comes last);
\* useMemo recomputes when treeData is not the array it was computed for.
Commit(q) ==
  /\ LET data == ReduceData(q, treeData)
         r == ReduceIndex(q, currentStepIndex, FALSE)
         playing == ReducePlaying(q, isPlaying) /\ ~r.stop
         memo == IF data # memoDeps
                 THEN Memo(data)
                 ELSE [tree |-> tree, d3Tree |-> d3Tree, steps |-> steps]
     IN /\ treeData' = data
        /\ currentStepIndex' = r.index
        /\ isPlaying' = playing
        /\ memoDeps' = data
        /\ tree' = memo.tree
        /\ d3Tree' = memo.d3Tree
        /\ steps' = memo.steps
        /\ effectsDue' = (playing # isPlaying \/ Len(memo.steps) # Len(steps))
  /\ inputValue' = ReduceInput(q, inputValue)
  /\ error' = ReduceError(q, error)
  /\ pending' = <<>>
  /\ timer' = TimerAfterEffects
  /\ UNCHANGED pipelineVars

\* handleDataChange without setCurrentStepIndex(0)
handleDataChangeKeepingIndex(data) ==
  <<Upd("setTree", 0, data), Upd("setPlaying", 0, <<>>)>>

\* handleDataChange(data): setTreeData(data); setCurrentStepIndex(0);
\* setIsPlaying(false).  The value is the updates it queues.
handleDataChange(data) ==
  <<Upd("setTree", 0, data), Upd("setIndex", 0, <<>>), Upd("setPlaying", 0, <<>>)>>

\* InputPanel: setInputValue(value); setError(null)
handleInputChange ==
  /\ CanHandle
  /\ \E value \in Texts :
       Commit(pending \o <<Upd("setInput", 0, value), Upd("setError", NoError, <<>>)>>)

\* handleApply with the call of validateTreeArray left out
handleApplyUnvalidated ==
  /\ CanHandle
  /\ LET parsed == parseArrayInput(inputValue)
     IN Commit(pending \o
          (IF parsed.isNull THEN <<Upd("setError", FormatError, <<>>)>>
           ELSE <<Upd("setError", NoError, <<>>)>> \o handleDataChange(parsed.arr)))

\* handleApply stopping the playback when it reports an error
handleApplyPausing ==
  /\ CanHandle
  /\ LET parsed == parseArrayInput(inputValue)
     IN Commit(pending \o
          (IF parsed.isNull
           THEN <<Upd("setError", FormatError, <<>>), Upd("setPlaying", 0, <<>>)>>
           ELSE IF ~validateTreeArray(parsed.arr)
           THEN <<Upd("setError", InvalidError, <<>>), Upd("setPlaying", 0, <<>>)>>
           ELSE <<Upd("setError", NoError, <<>>)>> \o handleDataChange(parsed.arr)))

\* InputPanel: parse the text of the field, validate the array, and either
\* set the error or clear it and call onDataChange(parsed)
handleApply ==
  /\ CanHandle
  /\ LET parsed == parseArrayInput(inputValue)
     IN Commit(pending \o
          (IF parsed.isNull THEN <<Upd("setError", FormatError, <<>>)>>
           ELSE IF ~validateTreeArray(parsed.arr)
           THEN <<Upd("setError", InvalidError, <<>>)>>
           ELSE <<Upd("setError", NoError, <<>>)>> \o handleDataChange(parsed.arr)))

\* InputPanel: a click on the button of a preset
handleSampleClick ==
  /\ CanHandle
  /\ \E k \in 1..Len(SAMPLE_DATA) :
       Commit(pending \o <<Upd("setInput", 0, stringify(SAMPLE_DATA[k])),
                               Upd("setError", NoError, <<>>)>>
                         \o handleDataChange(SAMPLE_DATA[k]))

\* InputPanel: a click on the random button
handleRandom ==
  /\ CanHandle
  /\ \E seed \in RandomSeeds :
       LET randomData == RandomData(seed)
       IN Commit(pending \o <<Upd("setInput", 0, stringify(randomData)),
                                  Upd("setError", NoError, <<>>)>>
                            \o handleDataChange(randomData))

\* handlePrevious with prev - 1 in place of Math.max(0, prev - 1)
handlePreviousUnclamped ==
  /\ CanHandle
  /\ Commit(Append(pending, Upd("setIndex", currentStepIndex - 1, <<>>)))

\* setCurrentStepIndex((prev) => Math.max(0, prev - 1))
handlePrevious ==
  /\ CanHandle
  /\ Commit(Append(pending, Upd("prev", 0, <<>>)))

\* handleNext with Math.min(steps.length, prev + 1)
handleNextUnclamped ==
  /\ CanHandle
  /\ Commit(Append(pending, Upd("next", Len(steps) + 1, <<>>)))

\* setCurrentStepIndex((prev) => Math.min(steps.length - 1, prev + 1))
handleNext ==
  /\ CanHandle
  /\ Commit(Append(pending, Upd("next", Len(steps), <<>>)))

\* handlePlayPause without the replay branch
handlePlayPauseToggleOnly ==
  /\ CanHandle
  /\ Commit(Append(pending, Upd("toggle", 0, <<>>)))

\* if (currentStepIndex >= steps.length - 1) { setCurrentStepIndex(0);
\* setIsPlaying(true) } else { setIsPlaying((prev) => !prev) }
handlePlayPause ==
  /\ CanHandle
  /\ Commit(
       IF currentStepIndex >= Len(steps) - 1
       THEN pending \o <<Upd("setIndex", 0, <<>>), Upd("setPlaying", 1, <<>>)>>
       ELSE Append(pending, Upd("toggle", 0, <<>>)))

\* the steps a seek asks for: ControlPanel keeps them within 0..totalSteps-1
SeekTargets(totalSteps) ==
  {0, 1, totalSteps - 2, totalSteps - 1} \cap (0..(totalSteps - 1))

\* handleSeek(step)
handleSeek ==
  /\ CanHandle
  /\ \E step \in SeekTargets(Len(steps)) :
       Commit(pending \o <<Upd("setIndex", step, <<>>), Upd("setPlaying", 0, <<>>)>>)

handleReset ==
  /\ CanHandle
  /\ Commit(pending \o <<Upd("setIndex", 0, <<>>), Upd("setPlaying", 0, <<>>)>>)

\* The callback of setInterval: it queues the updater that advances the
\* index, with the steps.length of the render that registered the interval.
\* An interval registered for another step sequence is cleared by the
\* effect's cleanup, which runs at the latest before the render of the
\* first update its callback queues: such updates do not pile up.
Tick ==
  /\ pc = "app"
  /\ timer.active
  /\ OnlyTicks(pending)
  /\ Len(pending) < MaxPending
  /\ timer.len # Len(steps) => pending = <<>>
  /\ pending' = Append(pending, Upd("tick", timer.len, <<>>))
  /\ UNCHANGED committed

\* A render caused by a timer callback: React schedules it after the
\* callback returned.
Render ==
  /\ pc = "app"
  /\ pending # <<>>
  /\ Commit(pending)

\* The playback effect after a commit that changed [isPlaying, steps.length]:
\* the cleanup clears the interval, and if isPlaying a new interval is set
\* whose callback sees the steps of this render.
RunEffects ==
  /\ pc = "app"
  /\ effectsDue
  /\ timer' = IF isPlaying THEN [active |-> TRUE, len |-> Len(steps)] ELSE NoTimer
  /\ effectsDue' = FALSE
  /\ UNCHANGED <<treeData, tree, d3Tree, steps, currentStepIndex, isPlaying,
                 memoDeps, pending, inputValue, error, pipelineVars>>

AppNext ==
  \/ handleInputChange
  \/ handleApply
  \/ handleSampleClick
  \/ handleRandom
  \/ handlePrevious
  \/ handleNext
  \/ handlePlayPause
  \/ handleSeek
  \/ handleReset
  \/ Tick
  \/ Render
  \/ RunEffects

AppSpec == AppInit /\ [][AppNext]_vars

---------------------------------------------------------------------------
(* Auto-play left to itself: the user acts only while isPlaying is false,  *)
(* and then does anything the application offers; the interval fires, and  *)
(* React renders queued updates and runs due effects.                      *)

PlayNext ==
  \/ ~isPlaying /\ handleInputChange
  \/ ~isPlaying /\ handleApply
  \/ ~isPlaying /\ handleSampleClick
  \/ ~isPlaying /\ handleRandom
  \/ ~isPlaying /\ handlePrevious
  \/ ~isPlaying /\ handleNext
  \/ ~isPlaying /\ handlePlayPause
  \/ ~isPlaying /\ handleSeek
  \/ ~isPlaying /\ handleReset
  \/ Tick
  \/ Render
  \/ RunEffects

\* the browser calls the interval's callback as long as the interval is
\* registered, and React renders queued updates and runs due effects
PlaySpec ==
  /\ AppInit
  /\ [][PlayNext]_vars
  /\ WF_vars(Tick)
  /\ WF_vars(Render)
  /\ WF_vars(RunEffects)

---------------------------------------------------------------------------

(* Vocabulary of the properties *)

\* steps holds a sequence returned by generateAlgorithmSteps(d3Tree)
Done == pc \in {"generated", "other", "regenerated"}

StepIdx == 1..Len(steps)
LastStep == steps[Len(steps)]

IsEnter(k) == steps[k].animationType = "recursion-enter"
IsExit(k) == steps[k].animationType = "recursion-exit"
IsParamPass(k) == steps[k].animationType = "param-pass"
IsUpdate(k) == steps[k].animationType = "update-diameter"
\* the compare step of the sum against the running best (code line 16)
IsSumCompare(k) ==
  steps[k].animationType = "compare" /\ steps[k].codeLineNumber = 16
\* the compare step of max(leftDepth, rightDepth) (code line 18)
IsDepthCompare(k) ==
  steps[k].animationType = "compare" /\ steps[k].codeLineNumber = 18
\* the step of a processNode invocation on an absent node
IsNullReturn(k) ==
  steps[k].animationType = "return-value" /\ steps[k].currentNodeId = NullId

\* Height of the subtree at reference n of a heap of nodes with left and right
\* fields, counted in nodes: 0 for the null reference.
RECURSIVE Height(_, _)
Height(heap, n) ==
  IF n = NoNode THEN 0
  ELSE 1 + Max(Height(heap, heap[n].left), Height(heap, heap[n].right))

\* leftDepth + rightDepth at node n
SumAt(heap, n) == Height(heap, heap[n].left) + Height(heap, heap[n].right)

SetMax(S) == CHOOSE m \in S : \A x \in S : x <= m

\* The diameter of the binary tree tr: the maximum over its nodes of
\* leftDepth + rightDepth, 0 for the absent tree.
TrueDiameter(tr) ==
  IF tr.root = NoNode THEN 0
  ELSE SetMax({SumAt(tr.heap, n) : n \in 1..Len(tr.heap)})

---------------------------------------------------------------------------
(* C1: for every array validateTreeArray accepts, the last step of the     *)
(* generated sequence has currentDiameter equal to the true diameter of    *)
(* the binary tree built from the array.                                   *)
C1_FinalDiameterIsTrueDiameter ==
  (Done /\ validateTreeArray(treeData)) =>
    LastStep.currentDiameter = TrueDiameter(tree)

---------------------------------------------------------------------------
(* C2: the returned sequence is never empty and the step at array position *)
(* k (0-based) has stepIndex = k.                                          *)
C2_StepIndexIsPosition ==
  Done => /\ Len(steps) > 0
          /\ \A k \in StepIdx : steps[k].stepIndex = k - 1

\* a traversal of a tree with at least two node objects has been generated
C2_Witness ==
  Done /\ Len(d3Tree.heap) >= 2 /\ Len(steps) > 14

---------------------------------------------------------------------------
(* C3: currentDiameter is 0 in the first step and never decreases from one *)
(* step to the next.                                                       *)
C3_DiameterNeverDecreases ==
  Done => /\ steps[1].currentDiameter = 0
          /\ \A k \in 1..(Len(steps) - 1) :
               steps[k].currentDiameter <= steps[k + 1].currentDiameter

\* the running best rose twice, and a later node compared a smaller sum
C3_Witness ==
  /\ Done
  /\ \E i, j, k \in StepIdx :
       /\ i < j /\ j < k
       /\ 0 < steps[i].currentDiameter
       /\ steps[i].currentDiameter < steps[j].currentDiameter
       /\ IsSumCompare(k)
       /\ steps[k].animationData.compareLeft < steps[k].animationData.compareRight

---------------------------------------------------------------------------
(* C4: for an empty array or a null root entry the built tree and the      *)
(* decorated tree are absent and the generator returns exactly two steps,  *)
(* both with currentNodeId null and currentDiameter 0, none of them a      *)
(* traversal step.                                                         *)
C4_AbsentRootTwoSteps ==
  (Done /\ (Len(treeData) = 0 \/ treeData[1] = Null)) =>
    /\ tree.root = NoNode
    /\ d3Tree.root = NoNode
    /\ Len(steps) = 2
    /\ \A k \in StepIdx :
         /\ steps[k].currentNodeId = NullId
         /\ steps[k].currentDiameter = 0
         /\ steps[k].animationType = "none"
         /\ steps[k].highlightedNodes = <<>>
         /\ steps[k].diameterPath = <<>>
    /\ steps[1].codeLineNumber = 2
    /\ steps[2].codeLineNumber = 5

\* a null root entry followed by numbers has been run through the pipeline
C4_Witness ==
  /\ Done
  /\ Len(treeData) >= 3 /\ treeData[1] = Null /\ treeData[2] # Null
  /\ Len(steps) = 2

---------------------------------------------------------------------------
(* C5: every recursion-enter step is followed later by exactly one         *)
(* recursion-exit step with the same currentNodeId, and no node id has     *)
(* more than one recursion-enter step.                                     *)
ExitsOf(id) == {j \in StepIdx : IsExit(j) /\ steps[j].currentNodeId = id}
EntersOf(id) == {j \in StepIdx : IsEnter(j) /\ steps[j].currentNodeId = id}

C5_EnterMatchedByOneExit ==
  Done =>
    /\ \A k \in StepIdx : IsEnter(k) =>
         /\ Cardinality(ExitsOf(steps[k].currentNodeId)) = 1
         /\ \A j \in ExitsOf(steps[k].currentNodeId) :
              steps[k].stepIndex < steps[j].stepIndex
         /\ EntersOf(steps[k].currentNodeId) = {k}
    /\ \A j \in StepIdx : IsExit(j) => EntersOf(steps[j].currentNodeId) # {}

\* nested invocations: an enter of a child lies between enter and exit of its parent
C5_Witness ==
  /\ Done
  /\ \E a, b, c, d \in StepIdx :
       /\ a < b /\ b < c /\ c < d
       /\ IsEnter(a) /\ IsEnter(b) /\ IsExit(c) /\ IsExit(d)
       /\ steps[a].currentNodeId = steps[d].currentNodeId
       /\ steps[b].currentNodeId = steps[c].currentNodeId
       /\ steps[a].currentNodeId # steps[b].currentNodeId

---------------------------------------------------------------------------
---------------------------------------------------------------------------
(* C7: the steps of one processNode invocation on a node object come in    *)
(* the order enter, param-pass (left), left subtree, return-value (left),  *)
(* param-pass (right), right subtree, return-value (right), compare of the *)
(* sum, update-diameter, compare of the depths, exit.                      *)

\* ids of the node objects of the subtree at reference n
RECURSIVE SubtreeIds(_, _)
SubtreeIds(heap, n) ==
  IF n = NoNode THEN {}
  ELSE {heap[n].id} \cup SubtreeIds(heap, heap[n].left)
                    \cup SubtreeIds(heap, heap[n].right)

\* positions of the steps emitted by the invocations on the subtree at child
SubtreeSteps(heap, child) ==
  {k \in StepIdx :
     \/ steps[k].currentNodeId \in SubtreeIds(heap, child)
     \/ /\ IsNullReturn(k)
        /\ steps[k].animationData.fromNodeId \in SubtreeIds(heap, child)}

\* number of steps of the call on child: one for an absent child
CallSize(heap, child) ==
  IF child = NoNode THEN 1 ELSE Cardinality(SubtreeSteps(heap, child))

\* the steps at positions lo..hi are exactly those of the call on child of id
IsCallOf(heap, child, id, lo, hi) ==
  IF child = NoNode
  THEN /\ lo = hi
       /\ IsNullReturn(lo)
       /\ steps[lo].animationData.fromNodeId = id
  ELSE SubtreeSteps(heap, child) = lo..hi

NodeOrder(heap, n) ==
  LET id == heap[n].id
      e == CHOOSE k \in StepIdx : IsEnter(k) /\ steps[k].currentNodeId = id
      p2 == e + 1
      p3 == p2 + CallSize(heap, heap[n].left) + 1
      p4 == p3 + 1
      p5 == p4 + CallSize(heap, heap[n].right) + 1
      own == <<e, p2, p3, p4, p5, p5 + 1, p5 + 2, p5 + 3, p5 + 4>>
  IN /\ \E k \in StepIdx : IsEnter(k) /\ steps[k].currentNodeId = id
     /\ p5 + 4 <= Len(steps)
     /\ {k \in StepIdx : steps[k].currentNodeId = id /\ k >= e}
          = {own[i] : i \in 1..9}
     /\ <<steps[own[1]].animationType, steps[own[2]].animationType,
          steps[own[3]].animationType, steps[own[4]].animationType,
          steps[own[5]].animationType, steps[own[6]].animationType,
          steps[own[7]].animationType, steps[own[8]].animationType,
          steps[own[9]].animationType>>
          = <<"recursion-enter", "param-pass", "return-value", "param-pass",
              "return-value", "compare", "update-diameter", "compare",
              "recursion-exit">>
     /\ steps[p2].animationData.toNodeId = OptId(heap, heap[n].left)
     /\ steps[p3].animationData.fromNodeId = OptId(heap, heap[n].left)
     /\ steps[p4].animationData.toNodeId = OptId(heap, heap[n].right)
     /\ steps[p5].animationData.fromNodeId = OptId(heap, heap[n].right)
     /\ steps[p2].codeLineNumber = 13 /\ steps[p3].codeLineNumber = 13
     /\ steps[p4].codeLineNumber = 14 /\ steps[p5].codeLineNumber = 14
     /\ IsSumCompare(p5 + 1)
     /\ IsDepthCompare(p5 + 3)
     /\ IsCallOf(heap, heap[n].left, id, p2 + 1, p3 - 1)
     /\ IsCallOf(heap, heap[n].right, id, p4 + 1, p5 - 1)
     /\ \A k \in SubtreeSteps(heap, heap[n].left) : k < p4

C7_StepOrderPerNode ==
  Done => \A n \in 1..Len(d3Tree.heap) : NodeOrder(d3Tree.heap, n)

\* a node with two children whose left and right subtrees differ in shape
C7_Witness ==
  /\ Done
  /\ \E n \in 1..Len(d3Tree.heap) :
       LET h == d3Tree.heap
       IN /\ h[n].left # NoNode /\ h[n].right # NoNode
          /\ h[h[n].left].left # NoNode
          /\ h[h[n].right].left = NoNode

---------------------------------------------------------------------------
(* C8 as stated: no param-pass step precedes the return-value step of an   *)
(* absent child, and a single-node tree yields exactly ten steps.          *)
TypesOfSteps == [k \in StepIdx |-> steps[k].animationType]

C8_NoParamPassForAbsentChild ==
  Done =>
    /\ \A k \in StepIdx : (IsNullReturn(k) /\ k > 1) => ~IsParamPass(k - 1)
    /\ (Len(d3Tree.heap) = 1) =>
         TypesOfSteps = <<"none", "param-pass", "recursion-enter",
                          "return-value", "return-value", "compare",
                          "update-diameter", "compare", "recursion-exit",
                          "none">>

(* C8 as amended: the call of an absent child is announced by a param-pass *)
(* step like any other call (no highlighted edge, no destination id, value *)
(* 'null'), the absent-child return-value step follows it immediately, and *)
(* a single-node tree yields exactly fourteen steps.                       *)
C8_ParamPassAlsoForAbsentChild ==
  Done =>
    /\ \A k \in StepIdx : IsNullReturn(k) =>
         /\ k > 1
         /\ IsParamPass(k - 1)
         /\ steps[k - 1].currentNodeId = steps[k].animationData.fromNodeId
         /\ steps[k - 1].animationData.toNodeId = Undefined
         /\ steps[k - 1].animationData.value = "null"
         /\ steps[k - 1].highlightedEdges = <<>>
    /\ \A k \in StepIdx :
         (IsParamPass(k) /\ k > 2 /\ steps[k].animationData.toNodeId = Undefined)
           => (k < Len(steps) /\ IsNullReturn(k + 1))
    /\ (Len(d3Tree.heap) = 1) =>
         /\ TypesOfSteps = <<"none", "param-pass", "recursion-enter",
                             "param-pass", "return-value", "return-value",
                             "param-pass", "return-value", "return-value",
                             "compare", "update-diameter", "compare",
                             "recursion-exit", "none">>
         /\ IsNullReturn(5) /\ IsNullReturn(8)
         /\ \A k \in StepIdx : steps[k].currentDiameter = 0

\* a single-node tree has been traversed
C8_Witness ==
  Done /\ Len(treeData) = 1 /\ Len(d3Tree.heap) = 1 /\ Len(steps) = 14

---------------------------------------------------------------------------
(* C9: the compare step of the sum shows leftDepth + rightDepth against    *)
(* the running best as it was before the node's update, with '>' exactly   *)
(* when the sum is larger, and still carries the old running best; the     *)
(* update-diameter step right after it carries the maximum of the two.     *)
NodeWithId(heap, id) == CHOOSE n \in 1..Len(heap) : heap[n].id = id

C9_CompareBeforeUpdate ==
  Done =>
    /\ \A k \in StepIdx : IsSumCompare(k) =>
         LET c == steps[k].animationData
             n == NodeWithId(d3Tree.heap, steps[k].currentNodeId)
         IN /\ k > 1 /\ k < Len(steps)
            /\ c.compareLeft = SumAt(d3Tree.heap, n)
            /\ c.compareRight = steps[k - 1].currentDiameter
            /\ c.compareResult =
                 (IF c.compareLeft > c.compareRight THEN ">" ELSE "<=")
            /\ steps[k].currentDiameter = steps[k - 1].currentDiameter
            /\ IsUpdate(k + 1)
            /\ steps[k + 1].currentNodeId = steps[k].currentNodeId
            /\ steps[k + 1].leftDepth + steps[k + 1].rightDepth = c.compareLeft
            /\ steps[k + 1].currentDiameter = Max(c.compareLeft, c.compareRight)
            /\ steps[k + 1].animationData.value = Max(c.compareLeft, c.compareRight)
    /\ \A k \in StepIdx : IsUpdate(k) => (k > 1 /\ IsSumCompare(k - 1))

\* a sum that exceeds a running best that is no longer 0
C9_Witness ==
  /\ Done
  /\ \E k \in StepIdx :
       /\ IsSumCompare(k)
       /\ steps[k].animationData.compareResult = ">"
       /\ steps[k].animationData.compareRight > 0

---------------------------------------------------------------------------
(* C10: the diameter path is replaced by [node.id] exactly at the update   *)
(* of a node whose sum strictly exceeds the running best; so it is empty   *)
(* while currentDiameter is 0 and otherwise holds the id of the first node *)
(* in post-order whose sum equals currentDiameter.  For [1,2,3,4,5] the    *)
(* final currentDiameter is 3 and the path is [root id] from the update on.*)
RECURSIVE PostOrder(_, _)
PostOrder(heap, n) ==
  IF n = NoNode THEN <<>>
  ELSE PostOrder(heap, heap[n].left) \o PostOrder(heap, heap[n].right) \o <<n>>

\* id of the first node in post-order whose leftDepth + rightDepth is c
FirstWithSum(heap, root, c) ==
  LET po == PostOrder(heap, root)
      i == CHOOSE i \in 1..Len(po) :
             /\ SumAt(heap, po[i]) = c
             /\ \A j \in 1..(i - 1) : SumAt(heap, po[j]) # c
  IN heap[po[i]].id

C10_PathReseededOnStrictIncrease ==
  Done =>
    /\ steps[1].diameterPath = <<>>
    /\ \A k \in 1..(Len(steps) - 1) :
         steps[k + 1].diameterPath =
           IF /\ IsUpdate(k + 1)
              /\ IsSumCompare(k)
              /\ steps[k].animationData.compareLeft
                   > steps[k].animationData.compareRight
           THEN <<steps[k + 1].currentNodeId>>
           ELSE steps[k].diameterPath
    /\ \A k \in StepIdx :
         steps[k].diameterPath =
           IF steps[k].currentDiameter = 0 THEN <<>>
           ELSE <<FirstWithSum(d3Tree.heap, d3Tree.root, steps[k].currentDiameter)>>
    /\ (treeData = DEFAULT_DATA) =>
         /\ LastStep.currentDiameter = 3
         /\ \E u \in StepIdx :
              /\ IsUpdate(u)
              /\ steps[u].currentNodeId = "0"
              /\ steps[u - 1].currentDiameter < 3
              /\ \A k \in u..Len(steps) :
                   steps[k].diameterPath = <<"0">> /\ steps[k].currentDiameter = 3

\* a later node ties with a running best above 0 and the path keeps the
\* earlier node
C10_Witness ==
  /\ Done
  /\ \E k \in StepIdx :
       /\ IsSumCompare(k)
       /\ steps[k].animationData.compareLeft = steps[k].animationData.compareRight
       /\ steps[k].animationData.compareRight > 0
       /\ steps[k + 1].diameterPath # <<steps[k].currentNodeId>>

---------------------------------------------------------------------------
(* C11: convertToD3Tree gives the root id '0' and depth 0, a left child    *)
(* the id of its parent followed by '-L', a right child the id of its      *)
(* parent followed by '-R', and every child the depth of its parent plus 1 *)
(* and a parent reference to the node it hangs from; so ids are unique in  *)
(* one decorated tree, and trees of the same shape get the same ids with   *)
(* the same depths.                                                        *)

\* d3Tree holds the result of convertToD3Tree(tree)
Decorated == pc \notin {"input", "built"}

\* the pairs (id, depth) of the node objects of a decorated tree
IdDepths(d) == {<<d.heap[n].id, d.heap[n].depth>> : n \in 1..Len(d.heap)}

\* another value in every non-null entry: a tree of the same shape
Revalue(arr) == [k \in 1..Len(arr) |-> IF arr[k] = Null THEN Null ELSE 3 - arr[k]]

\* arrays whose trees have the shape of the tree of arr
Twins(arr) == {Revalue(arr), Append(arr, Null), Append(Revalue(arr), Null)}

C11_IdsAndDepthsFromPath ==
  Decorated =>
    LET h == d3Tree.heap
    IN /\ (d3Tree.root # NoNode) =>
            /\ h[d3Tree.root].id = "0"
            /\ h[d3Tree.root].depth = 0
            /\ h[d3Tree.root].parent = NoNode
       /\ \A n \in 1..Len(h) :
            /\ (h[n].left # NoNode) =>
                 /\ h[h[n].left].id = h[n].id \o "-L"
                 /\ h[h[n].left].depth = h[n].depth + 1
                 /\ h[h[n].left].parent = n
            /\ (h[n].right # NoNode) =>
                 /\ h[h[n].right].id = h[n].id \o "-R"
                 /\ h[h[n].right].depth = h[n].depth + 1
                 /\ h[h[n].right].parent = n
            /\ (n # d3Tree.root) =>
                 /\ h[n].parent # NoNode
                 /\ n \in {h[h[n].parent].left, h[h[n].parent].right}
       /\ \A m, n \in 1..Len(h) : (m # n) => (h[m].id # h[n].id)
       /\ (pc = "decorated") =>
            \A a \in Twins(treeData) :
              IdDepths(DecorateDefault(buildTreeFromArray(a))) = IdDepths(d3Tree)

\* a decorated tree with a node two levels down a left-right path
C11_Witness ==
  /\ Decorated
  /\ \E m, n \in 1..Len(d3Tree.heap) :
       /\ d3Tree.heap[m].id = "0-L-R" /\ d3Tree.heap[m].depth = 2
       /\ d3Tree.heap[n].id = "0-R" /\ d3Tree.heap[n].depth = 1
       /\ d3Tree.heap[d3Tree.heap[m].parent].id = "0-L"

---------------------------------------------------------------------------
(* C12 as stated: the decorated tree built with the default arguments has  *)
(* a left (right) child exactly where the binary tree has one, so it has   *)
(* as many nodes as the binary tree; an absent tree gives an absent        *)
(* decorated tree.                                                         *)

\* the nodes of the subtree at reference n of the TreeNode heap t, each as
\* <<path from the root, value>>; p is the path of n, a sequence of "L" / "R"
RECURSIVE TreePathVals(_, _, _)
TreePathVals(t, n, p) ==
  IF n = NoNode THEN {}
  ELSE {<<p, t[n].val>>}
         \cup TreePathVals(t, t[n].left, Append(p, "L"))
         \cup TreePathVals(t, t[n].right, Append(p, "R"))

\* the node objects of the subtree at reference n of the decorated heap d3,
\* each as <<path from the root, value, isNull>>
RECURSIVE D3PathVals(_, _, _)
D3PathVals(d3, n, p) ==
  IF n = NoNode THEN {}
  ELSE {<<p, d3[n].val, d3[n].isNull>>}
         \cup D3PathVals(d3, d3[n].left, Append(p, "L"))
         \cup D3PathVals(d3, d3[n].right, Append(p, "R"))

\* the child slots left empty by the nodes of t that have exactly one child
RECURSIVE LoneSlots(_, _, _)
LoneSlots(t, n, p) ==
  IF n = NoNode THEN {}
  ELSE (IF t[n].left = NoNode /\ t[n].right # NoNode THEN {Append(p, "L")} ELSE {})
       \cup (IF t[n].left # NoNode /\ t[n].right = NoNode THEN {Append(p, "R")} ELSE {})
       \cup LoneSlots(t, t[n].left, Append(p, "L"))
       \cup LoneSlots(t, t[n].right, Append(p, "R"))

C12_MirrorsShapeExactly ==
  Decorated =>
    /\ (tree.root = NoNode) => (d3Tree.root = NoNode)
    /\ {pv[1] : pv \in D3PathVals(d3Tree.heap, d3Tree.root, <<>>)}
         = {pv[1] : pv \in TreePathVals(tree.heap, tree.root, <<>>)}
    /\ Len(d3Tree.heap) = Len(tree.heap)

(* C12 as amended: the decorated tree built with the default arguments     *)
(* holds one node for every node of the binary tree, at the same place and *)
(* with the same value, and in addition one placeholder (isNull true,      *)
(* value null, no children) in the empty child slot of every node that has *)
(* exactly one child; a leaf gets no placeholders.  It has as many nodes   *)
(* as the binary tree plus one per node with exactly one child, and an     *)
(* absent tree gives an absent decorated tree.                             *)
C12_MirrorsShapeUpToPlaceholders ==
  Decorated =>
    LET dn == D3PathVals(d3Tree.heap, d3Tree.root, <<>>)
        tn == TreePathVals(tree.heap, tree.root, <<>>)
        lone == LoneSlots(tree.heap, tree.root, <<>>)
    IN /\ (tree.root = NoNode) => (d3Tree.root = NoNode /\ d3Tree.heap = <<>>)
       /\ {<<pv[1], pv[2]>> : pv \in {x \in dn : ~x[3]}} = tn
       /\ {x \in dn : x[3]} = {<<p, Null, TRUE>> : p \in lone}
       /\ \A n \in 1..Len(d3Tree.heap) :
            d3Tree.heap[n].isNull =>
              /\ d3Tree.heap[n].left = NoNode
              /\ d3Tree.heap[n].right = NoNode
       /\ Cardinality(dn) = Len(d3Tree.heap)
       /\ Len(d3Tree.heap) = Len(tree.heap) + Cardinality(lone)

\* a binary tree with a node that has one child, a node that has two and a leaf
C12_Witness ==
  /\ Decorated
  /\ \E a, b, c \in 1..Len(tree.heap) :
       /\ tree.heap[a].left # NoNode /\ tree.heap[a].right = NoNode
       /\ tree.heap[b].left # NoNode /\ tree.heap[b].right # NoNode
       /\ tree.heap[c].left = NoNode /\ tree.heap[c].right = NoNode
  /\ Len(d3Tree.heap) > Len(tree.heap)

---------------------------------------------------------------------------
(* C13 as stated: index 0 is the root and, in every array, the node        *)
(* created from index i has as left child the node of index 2i+1 and as    *)
(* right child the node of index 2i+2, a null entry or an index past the   *)
(* end meaning no child.                                                   *)

\* tree holds the result of buildTreeFromArray(treeData)
Built == pc # "input"

\* the tree read off arr by index arithmetic from the 0-based index i, each
\* node as <<path from the root, value, index>>
RECURSIVE IndexTree(_, _, _)
IndexTree(arr, i, p) ==
  IF i >= Len(arr) \/ arr[i + 1] = Null THEN {}
  ELSE {<<p, arr[i + 1], i>>}
         \cup IndexTree(arr, 2 * i + 1, Append(p, "L"))
         \cup IndexTree(arr, 2 * i + 2, Append(p, "R"))

RECURSIVE CreatedFrom(_, _, _)
CreatedFrom(arr, j, acc) ==
  IF j >= Len(arr) THEN acc
  ELSE IF arr[j + 1] # Null /\ (j - 1) \div 2 < Len(acc)
       THEN CreatedFrom(arr, j + 1, Append(acc, j))
       ELSE CreatedFrom(arr, j + 1, acc)

Created(arr) ==
  IF Len(arr) = 0 \/ arr[1] = Null THEN <<>> ELSE CreatedFrom(arr, 1, <<0>>)

\* the reference of the node created from index j, NoNode if there is none
NodeOfIndex(arr, j) ==
  IF j < Len(arr) /\ arr[j + 1] # Null
  THEN CHOOSE r \in 1..Len(Created(arr)) : Created(arr)[r] = j
  ELSE NoNode

---------------------------------------------------------------------------
(* C14: validateTreeArray returns false exactly for an empty array, an     *)
(* array whose entry 0 is null, an array with a non-null entry below -100  *)
(* or above 100, and an array of more than 10000 entries; null entries     *)
(* after index 0 are accepted.                                             *)
C14_RejectsExactlyTheInvalid ==
  (pc = "validated") =>
    (isValid = FALSE <=>
       \/ Len(treeData) = 0
       \/ treeData[1] = Null
       \/ \E k \in 1..Len(treeData) :
            treeData[k] # Null /\ (treeData[k] < -100 \/ treeData[k] > 100)
       \/ Len(treeData) > 10000)

\* an array with both limit values and a null entry after index 0 was accepted
C14_Witness ==
  pc = "validated" /\ isValid /\ treeData = <<-100, Null, 100>>

---------------------------------------------------------------------------
(* C15: the decorated tree and the step sequence on display are always     *)
(* those of the treeData on display, and the commit that installs another  *)
(* treeData installs with it the decorated tree and the steps of that      *)
(* array, currentStepIndex = 0 and isPlaying = false, also when auto-play  *)
(* was running: the index the old sequence had reached is never applied to *)
(* the new one.                                                            *)
C15_DataChangeIsAtomic ==
  /\ [](pc = "app" =>
          /\ memoDeps = treeData
          /\ d3Tree = Memo(treeData).d3Tree
          /\ steps = Memo(treeData).steps)
  /\ [][(pc = "app" /\ treeData' # treeData) =>
          /\ currentStepIndex' = 0
          /\ isPlaying' = FALSE
          /\ memoDeps' = treeData'
          /\ d3Tree' = Memo(treeData').d3Tree
          /\ steps' = Memo(treeData').steps]_vars

\* another array was committed while the interval of a running auto-play,
\* registered for a sequence of another length and past its start, was
\* still set
C15_Witness ==
  /\ pc = "app"
  /\ effectsDue /\ timer.active /\ timer.len # Len(steps)
  /\ currentStepIndex = 0 /\ ~isPlaying
  /\ treeData # DEFAULT_DATA

---------------------------------------------------------------------------
(* C16: the invocation of processNode on an absent child emits exactly one *)
(* step and returns depth 0.  The step has animationType 'return-value',   *)
(* value 0 and fromNodeId the parent's id, currentNodeId null, as          *)
(* highlightedNodes the path from the root to the parent, and the          *)
(* currentDiameter and diameterPath of the step before it.                 *)

\* ids on the path from the root down to the node object n
RECURSIVE RootPath(_, _)
RootPath(heap, n) ==
  IF n = NoNode THEN <<>> ELSE Append(RootPath(heap, heap[n].parent), heap[n].id)

\* positions of the param-pass step of the node with this id on code line
\* line (13: call of the left child, 14: call of the right child)
CallsAt(id, line) ==
  {k \in StepIdx : /\ IsParamPass(k)
                   /\ steps[k].currentNodeId = id
                   /\ steps[k].codeLineNumber = line}

\* the call of an absent child by node object n on code line line
AbsentCall(heap, n, line) ==
  LET id == heap[n].id
      p == CHOOSE k \in CallsAt(id, line) : TRUE
  IN /\ Cardinality(CallsAt(id, line)) = 1
     /\ p + 2 <= Len(steps)
     /\ steps[p + 1].animationType = "return-value"
     /\ steps[p + 1].animationData = [fromNodeId |-> id, value |-> 0]
     /\ steps[p + 1].currentNodeId = NullId
     /\ steps[p + 1].highlightedNodes = RootPath(heap, n)
     /\ steps[p + 1].currentDiameter = steps[p].currentDiameter
     /\ steps[p + 1].diameterPath = steps[p].diameterPath
     \* the caller goes on right after this one step, with the depth 0
     /\ steps[p + 2].currentNodeId = id
     /\ steps[p + 2].animationType = "return-value"
     /\ steps[p + 2].codeLineNumber = line
     /\ steps[p + 2].animationData.value = 0

\* the (node, code line) pairs of the calls of absent children
AbsentCalls(heap) ==
  {<<n, 13>> : n \in {m \in 1..Len(heap) : heap[m].left = NoNode}}
    \cup {<<n, 14>> : n \in {m \in 1..Len(heap) : heap[m].right = NoNode}}

C16_AbsentChildOneStep ==
  Done =>
    /\ \A c \in AbsentCalls(d3Tree.heap) : AbsentCall(d3Tree.heap, c[1], c[2])
    /\ Cardinality({k \in StepIdx : IsNullReturn(k)})
         = Cardinality(AbsentCalls(d3Tree.heap))

\* an absent child below the root's children, called when the running best
\* is above 0
C16_Witness ==
  /\ Done
  /\ \E k \in StepIdx :
       /\ IsNullReturn(k)
       /\ Len(steps[k].highlightedNodes) >= 3
       /\ steps[k].currentDiameter > 0
       /\ steps[k].diameterPath # <<>>

---------------------------------------------------------------------------
(* C17: for every node object, the return-value step after the call of its *)
(* left (right) child has toNodeId = node.id and carries the value that     *)
(* call returned: the value of the child's recursion-exit step, or 0 for an *)
(* absent child; the node's own recursion-exit step carries                 *)
(* max(leftDepth, rightDepth) + 1, fromNodeId = node.id and toNodeId = the  *)
(* parent's id (none for the root).                                         *)

\* positions of the return-value step of the node with this id on code line
\* line (13: left child, 14: right child)
ReturnsAt(id, line) ==
  {k \in StepIdx : /\ steps[k].animationType = "return-value"
                   /\ steps[k].currentNodeId = id
                   /\ steps[k].codeLineNumber = line}

\* the value the recursion-exit step of the node with this id carries
ExitValue(id) == steps[CHOOSE k \in ExitsOf(id) : TRUE].animationData.value

\* what the trace shows the invocation on child to have returned
ReturnedBy(heap, child) ==
  IF child = NoNode THEN 0 ELSE ExitValue(heap[child].id)

ReturnFlow(heap, n) ==
  LET id == heap[n].id
      l == CHOOSE k \in ReturnsAt(id, 13) : TRUE
      r == CHOOSE k \in ReturnsAt(id, 14) : TRUE
      e == CHOOSE k \in ExitsOf(id) : TRUE
  IN /\ Cardinality(ReturnsAt(id, 13)) = 1
     /\ Cardinality(ReturnsAt(id, 14)) = 1
     /\ Cardinality(ExitsOf(id)) = 1
     /\ l < r /\ r < e
     /\ steps[l].animationData
          = [fromNodeId |-> OptId(heap, heap[n].left), toNodeId |-> id,
             value |-> ReturnedBy(heap, heap[n].left)]
     /\ steps[r].animationData
          = [fromNodeId |-> OptId(heap, heap[n].right), toNodeId |-> id,
             value |-> ReturnedBy(heap, heap[n].right)]
     /\ (heap[n].left # NoNode) =>
          \A k \in ExitsOf(heap[heap[n].left].id) : k < l
     /\ (heap[n].right # NoNode) =>
          \A k \in ExitsOf(heap[heap[n].right].id) : l < k /\ k < r
     /\ steps[e].animationData
          = [fromNodeId |-> id,
             toNodeId |-> IF heap[n].parent = NoNode THEN Undefined
                          ELSE heap[heap[n].parent].id,
             value |-> Max(steps[l].animationData.value,
                           steps[r].animationData.value) + 1]

C17_ReturnValuesFlow ==
  Done => \A n \in 1..Len(d3Tree.heap) : ReturnFlow(d3Tree.heap, n)

\* a node whose children return different depths, the larger one from the
\* right, and whose own value goes to a parent
C17_Witness ==
  /\ Done
  /\ \E n \in 1..Len(d3Tree.heap) :
       LET id == d3Tree.heap[n].id
       IN /\ d3Tree.heap[n].parent # NoNode
          /\ \E l \in ReturnsAt(id, 13), r \in ReturnsAt(id, 14) :
               /\ steps[l].animationData.value >= 1
               /\ steps[r].animationData.value > steps[l].animationData.value

---------------------------------------------------------------------------
(* C18 as stated: the depth processNode computes for a node N, carried by   *)
(* N's recursion-exit step, is the number of edges on the longest path from *)
(* N down to a leaf of N's subtree.                                         *)

\* the path from the root to the node object n: "L" / "R" per descent
RECURSIVE PathOf(_, _)
PathOf(heap, n) ==
  IF heap[n].parent = NoNode THEN <<>>
  ELSE Append(PathOf(heap, heap[n].parent),
              IF heap[heap[n].parent].left = n THEN "L" ELSE "R")

\* the TreeNode reached from n along path p, NoNode if the path leaves the tree
RECURSIVE TreeNodeAt(_, _, _)
TreeNodeAt(t, n, p) ==
  IF n = NoNode \/ p = <<>> THEN n
  ELSE TreeNodeAt(t, IF Head(p) = "L" THEN t[n].left ELSE t[n].right, Tail(p))

\* number of nodes on the longest path from the TreeNode that the decorated
\* node n stands for down to a leaf; 0 if n stands for no TreeNode
NodesBelow(n) ==
  Height(tree.heap, TreeNodeAt(tree.heap, tree.root, PathOf(d3Tree.heap, n)))

C18_DepthCountsEdges ==
  Done =>
    \A n \in 1..Len(d3Tree.heap) :
      ~d3Tree.heap[n].isNull => ExitValue(d3Tree.heap[n].id) = NodesBelow(n) - 1

(* C18 as amended: the depth processNode computes for a node N of the       *)
(* binary tree, carried by N's recursion-exit step and by the return-value  *)
(* step of its parent, is the number of nodes on the longest path from N    *)
(* down to a leaf of N's subtree (its edges plus 1, so 1 for a leaf); the   *)
(* depth of an absent (null) node is 0, and a placeholder object in an      *)
(* empty child slot gets depth 1.                                           *)
C18_DepthCountsNodes ==
  Done =>
    LET h == d3Tree.heap
    IN /\ \A n \in 1..Len(h) :
            LET d == IF h[n].isNull THEN 1 ELSE NodesBelow(n)
            IN /\ h[n].isNull <=> (NodesBelow(n) = 0)
               /\ ExitValue(h[n].id) = d
               /\ (h[n].parent # NoNode) =>
                    \A k \in ReturnsAt(h[h[n].parent].id,
                                       IF h[h[n].parent].left = n THEN 13 ELSE 14) :
                      steps[k].animationData.value = d
       /\ \A c \in AbsentCalls(h) :
            \A k \in ReturnsAt(h[c[1]].id, c[2]) : steps[k].animationData.value = 0

\* a node of depth 3 whose subtrees differ in depth, in a tree with a leaf
\* and a placeholder
C18_Witness ==
  /\ Done
  /\ \E n, m, q \in 1..Len(d3Tree.heap) :
       /\ ExitValue(d3Tree.heap[n].id) = 3
       /\ \E l \in ReturnsAt(d3Tree.heap[n].id, 13), r \in ReturnsAt(d3Tree.heap[n].id, 14) :
            steps[l].animationData.value # steps[r].animationData.value
       /\ ~d3Tree.heap[m].isNull /\ ExitValue(d3Tree.heap[m].id) = 1
       /\ d3Tree.heap[q].isNull

---------------------------------------------------------------------------
(* C19: in every step with a current node, highlightedNodes is the path    *)
(* from the root to that node: it starts with the root id '0', each        *)
(* further element is the id of a child of the element before it, and the  *)
(* last element is currentNodeId; in the initialization step and in the    *)
(* terminal step it is empty.                                              *)
C19_HighlightedNodesIsRootPath ==
  Done =>
    LET h == d3Tree.heap
    IN /\ \A k \in StepIdx :
            (steps[k].currentNodeId # NullId) =>
              LET hl == steps[k].highlightedNodes
              IN /\ Len(hl) >= 1
                 /\ hl[1] = "0"
                 /\ hl[Len(hl)] = steps[k].currentNodeId
                 /\ \A i \in 1..(Len(hl) - 1) :
                      \E n \in 1..Len(h) :
                        /\ h[n].id = hl[i]
                        /\ \/ h[n].left # NoNode /\ h[h[n].left].id = hl[i + 1]
                           \/ h[n].right # NoNode /\ h[h[n].right].id = hl[i + 1]
                 /\ hl = RootPath(h, NodeWithId(h, steps[k].currentNodeId))
       /\ steps[1].highlightedNodes = <<>>
       /\ LastStep.highlightedNodes = <<>>
       /\ steps[1].currentNodeId = NullId
       /\ LastStep.currentNodeId = NullId

\* a step of a node two levels below the root, reached through a right child
C19_Witness ==
  /\ Done
  /\ \E k \in StepIdx :
       /\ IsSumCompare(k)
       /\ Len(steps[k].highlightedNodes) = 3
       /\ steps[k].highlightedNodes[2] = "0-R"

---------------------------------------------------------------------------
(* C20: highlightedEdges is the single edge [node.id, child.id] in the     *)
(* param-pass and the return-value step a node emits for a child that      *)
(* exists in the binary tree; for a child that is absent from the binary   *)
(* tree both steps have no edge and the param-pass step carries no         *)
(* destination id and the value 'null'; every other step has no edge.      *)

\* the child reference stands for a node of the binary tree
InBinaryTree(heap, child) == child # NoNode /\ ~heap[child].isNull

\* the param-pass and return-value steps of node object n for child, on
\* code line line
EdgesOfCall(heap, n, child, line) ==
  LET id == heap[n].id
  IN \A k \in CallsAt(id, line) \cup ReturnsAt(id, line) :
       IF InBinaryTree(heap, child)
       THEN steps[k].highlightedEdges = << <<id, heap[child].id>> >>
       ELSE /\ steps[k].highlightedEdges = <<>>
            /\ IsParamPass(k) =>
                 /\ steps[k].animationData.toNodeId = Undefined
                 /\ steps[k].animationData.value = "null"

C20_EdgesOnlyToTreeChildren ==
  Done =>
    LET h == d3Tree.heap
    IN /\ \A n \in 1..Len(h) :
            ~h[n].isNull =>
              /\ EdgesOfCall(h, n, h[n].left, 13)
              /\ EdgesOfCall(h, n, h[n].right, 14)
       /\ \A k \in StepIdx :
            (steps[k].highlightedEdges # <<>>) =>
              /\ steps[k].animationType \in {"param-pass", "return-value"}
              /\ steps[k].codeLineNumber \in {13, 14}
              /\ steps[k].currentNodeId # NullId

---------------------------------------------------------------------------
\* the largest leftDepth + rightDepth any sum-compare step of the trace shows
LargestSum ==
  SetMax({0} \cup {steps[k].animationData.compareLeft : k \in {j \in StepIdx : IsSumCompare(j)}})

\* steps 0 and 2 and the last two steps of the trace of a non-absent root
BracketsButDispatch ==
  LET rootId == d3Tree.heap[d3Tree.root].id
      n == Len(steps)
  IN /\ n >= 5
     /\ steps[1].currentNodeId = NullId
     /\ steps[1].currentDiameter = 0
     /\ steps[1].highlightedNodes = <<>>
     /\ steps[1].highlightedEdges = <<>>
     /\ steps[1].diameterPath = <<>>
     /\ steps[1].animationType = "none"
     /\ IsEnter(3)
     /\ steps[3].currentNodeId = rootId
     /\ IsExit(n - 1)
     /\ steps[n - 1].currentNodeId = rootId
     /\ \A k \in StepIdx : (IsExit(k) /\ steps[k].currentNodeId = rootId) => k = n - 1
     /\ steps[n].currentNodeId = NullId
     /\ steps[n].animationType = "none"
     /\ steps[n].highlightedNodes = <<>>
     /\ steps[n].currentDiameter = closure.globalDiameter
     /\ steps[n].currentDiameter = LargestSum
     /\ \A k \in StepIdx : steps[k].currentDiameter <= steps[n].currentDiameter

\* step 1 announces the call into the root
DispatchesRoot ==
  /\ steps[2].currentNodeId = d3Tree.heap[d3Tree.root].id
  /\ steps[2].currentDiameter = 0
  /\ steps[2].codeLineNumber = 4

(* C21 as stated: for a non-absent root, step 0 is the initialization      *)
(* step, step 1 announces the call into the root and is not a paramPass    *)
(* step, step 2 is the root's recursion-enter step, and the last step is   *)
(* the terminal step with the settled running best, right after the root's *)
(* recursion-exit step.                                                    *)
C21_RootDispatchIsNotParamPass ==
  (pc = "generated" /\ d3Tree.root # NoNode) =>
    /\ BracketsButDispatch
    /\ DispatchesRoot
    /\ ~IsParamPass(2)

(* C21, amended: the same bracketing, with step 1 a paramPass step whose   *)
(* payload names the root as destination, carries the root's value and has *)
(* no source node.                                                         *)
C21_BracketingWithParamPassDispatch ==
  (pc = "generated" /\ d3Tree.root # NoNode) =>
    /\ BracketsButDispatch
    /\ DispatchesRoot
    /\ IsParamPass(2)
    /\ steps[2].animationData =
         [toNodeId |-> d3Tree.heap[d3Tree.root].id,
          value |-> "node=" \o ValStr(d3Tree.heap[d3Tree.root].val)]
    /\ steps[2].highlightedNodes = <<d3Tree.heap[d3Tree.root].id>>
    /\ steps[2].highlightedEdges = <<>>

\* the trace of a tree of several nodes whose running best settled above 0
C21_Witness ==
  /\ pc = "generated"
  /\ d3Tree.root # NoNode
  /\ Len(d3Tree.heap) >= 3
  /\ IsParamPass(2)
  /\ LastStep.currentDiameter >= 2
  /\ IsExit(Len(steps) - 1)

---------------------------------------------------------------------------
\* the node objects one child pointer away from the node objects in S
ChildrenOf(heap, S) ==
  ({heap[n].left : n \in S} \cup {heap[n].right : n \in S}) \ {NoNode}

\* the node objects within k child pointers of those in S
RECURSIVE Reach(_, _, _)
Reach(heap, S, k) ==
  IF k = 0 THEN S ELSE Reach(heap, S \cup ChildrenOf(heap, S), k - 1)

\* the number of child pointers that point at the node object c
InDegree(heap, c) ==
  Cardinality({n \in 1..Len(heap) : heap[n].left = c})
    + Cardinality({n \in 1..Len(heap) : heap[n].right = c})

\* t is a rooted binary tree: no pointer leads to the root, exactly one to
\* every other node, and every node is reached from the root
IsRootedBinaryTree(t) ==
  /\ t.root \in 1..Len(t.heap)
  /\ \A n \in 1..Len(t.heap) :
       InDegree(t.heap, n) = (IF n = t.root THEN 0 ELSE 1)
  /\ Reach(t.heap, {t.root}, Len(t.heap)) = 1..Len(t.heap)

NonNullEntries(arr) == {k \in 0..(Len(arr) - 1) : arr[k + 1] # Null}

\* every node object comes from an entry of its own, not null, whose value
\* it carries, and only entries of the array were read
NodesFromEntries ==
  /\ Len(loop.from) = Len(tree.heap)
  /\ \A n \in 1..Len(tree.heap) :
       /\ loop.from[n] \in NonNullEntries(treeData)
       /\ tree.heap[n].val = treeData[loop.from[n] + 1]
       /\ \A m \in 1..Len(tree.heap) : loop.from[m] = loop.from[n] => m = n
  /\ Len(tree.heap) <= Cardinality(NonNullEntries(treeData))
  /\ loop.read \subseteq 0..(Len(treeData) - 1)

(* C22: buildTreeFromArray returns on every array; it returns null exactly *)
(* when the array is empty or entry 0 is null; otherwise it returns a      *)
(* rooted binary tree whose nodes come from distinct non-null entries,     *)
(* carry their values and are no more than the non-null entries; no index  *)
(* beyond the end of the array is read; every iteration advances i by 2.   *)
C22_BuildTerminatesWithATree ==
  /\ <>(pc = "returned")
  /\ [](NodesFromEntries)
  /\ [](pc = "returned" =>
          /\ (tree.root = NoNode) <=> (Len(treeData) = 0 \/ treeData[1] = Null)
          /\ tree.root = NoNode => tree.heap = <<>>
          /\ tree.root # NoNode => IsRootedBinaryTree(tree))
  /\ [][(pc = "while" /\ pc' = "while") =>
          /\ loop'.i = loop.i + 2
          /\ loop.i < Len(treeData)]_vars

\* the loop ran and stopped on an empty queue before the array was
\* exhausted: a non-null entry was left over and became no node
C22_Witness ==
  /\ pc = "returned"
  /\ tree.root # NoNode
  /\ loop.i > 1
  /\ loop.queue = <<>>
  /\ loop.i < Len(treeData)
  /\ Len(tree.heap) < Cardinality(NonNullEntries(treeData))

---------------------------------------------------------------------------
\* the values of Math.random() the random arrays are checked for: every
\* sequence of up to three of the values 0, 0.199, 0.2 and 0.999, repeated
WideSeeds == UNION {[1..n -> {0, 199, 200, 999}] : n \in 1..3}

\* what the claim says of an array generateRandomTree(nodeCount) returns
IsRandomTreeArray(a, nodeCount) ==
  /\ Len(a) = Min(Max(nodeCount, 1), 15)
  /\ Len(a) >= 1 /\ Len(a) <= 15
  /\ \A k \in 1..Min(3, Len(a)) : a[k] # Null
  /\ \A k \in 1..Len(a) : a[k] # Null => (a[k] >= -100 /\ a[k] <= 100)
  /\ validateTreeArray(a)

RandomTreesAreValid ==
  \A seed \in WideSeeds : \A nodeCount \in (0 - 1)..17 :
    IsRandomTreeArray(generateRandomTree(nodeCount, seed, 1), nodeCount)

PresetsAreValid ==
  /\ validateTreeArray(DEFAULT_DATA)
  /\ \A k \in 1..Len(SAMPLE_DATA) : validateTreeArray(SAMPLE_DATA[k])

(* C23: in every state of the application treeData passes                  *)
(* validateTreeArray, so the tree built from it and the decorated tree     *)
(* have a root; the default data, the presets and every array of           *)
(* generateRandomTree (length 1..15, first three entries not null, values  *)
(* in [-100, 100]) pass validation.                                        *)
C23_TreeDataAlwaysValid ==
  /\ pc = "app" =>
       /\ validateTreeArray(treeData)
       /\ tree.root # NoNode
       /\ d3Tree.root # NoNode
       /\ Len(steps) > 2
  /\ PresetsAreValid
  /\ RandomTreesAreValid

\* a random array is installed, and a text whose array validateTreeArray
\* rejects was applied after it and left it in place
C23_Witness ==
  /\ pc = "app"
  /\ \E seed \in RandomSeeds : treeData = RandomData(seed)
  /\ \E k \in 1..Len(treeData) : treeData[k] = Null
  /\ error = InvalidError
  /\ ~parseArrayInput(inputValue).isNull
  /\ parseArrayInput(inputValue).arr # treeData

---------------------------------------------------------------------------
(* C24: in every state of the application 0 <= currentStepIndex <=         *)
(* steps.length - 1, so steps[currentStepIndex] is a step, the one with    *)
(* that stepIndex.                                                         *)
C24_IndexInRange ==
  pc = "app" =>
    /\ 0 <= currentStepIndex
    /\ currentStepIndex <= Len(steps) - 1
    /\ steps[currentStepIndex + 1].stepIndex = currentStepIndex

\* the update of a timer callback registered for a longer step sequence
\* waits for its render, after a data change installed a shorter sequence
C24_Witness ==
  /\ pc = "app"
  /\ pending # <<>>
  /\ pending[1].op = "tick"
  /\ pending[1].n > Len(steps)
  /\ currentStepIndex = 0
  /\ treeData # DEFAULT_DATA


---------------------------------------------------------------------------
(* C25: auto-play left to itself advances one step per tick and stops at   *)
(* the last step                                                           *)

\* the step applies queued timer ticks to a playing application
TicksRendered == isPlaying /\ pending # <<>> /\ pending' = <<>>

\* C25: while auto-play is on and the user does not act, a render of k queued
\* ticks moves currentStepIndex forward by k, one per tick, but never past
\* the last index; isPlaying becomes false exactly when one of those ticks
\* found the index at the last step, and the index is then the last one; the
\* index never decreases, and auto-play always eventually stops.
C25_AutoPlayAdvancesAndStops ==
  /\ isPlaying ~> ~isPlaying
  /\ [][TicksRendered =>
          /\ currentStepIndex' = Min(currentStepIndex + Len(pending), Len(steps) - 1)
          /\ isPlaying' = (currentStepIndex + Len(pending) <= Len(steps) - 1)
          /\ UNCHANGED <<treeData, steps>>]_vars
  /\ [][isPlaying =>
          /\ currentStepIndex' >= currentStepIndex
          /\ currentStepIndex' <= currentStepIndex + Len(pending)
          /\ ~isPlaying' =>
               /\ currentStepIndex' = Len(steps) - 1
               /\ currentStepIndex + Len(pending) > Len(steps) - 1]_vars

\* auto-play started at step 0 of the seven-node sample has just been stopped
\* by the tick that found the index at the last step
C25_Witness ==
  /\ pc = "app"
  /\ ~isPlaying
  /\ effectsDue
  /\ timer.active
  /\ timer.len = Len(steps)
  /\ Len(treeData) = 7
  /\ currentStepIndex = Len(steps) - 1
  /\ pending = <<>>


---------------------------------------------------------------------------
(* C26: play/pause replays from the last step and toggles elsewhere        *)

\* the render a handler's event ends with has no update of a timer callback
\* to apply with the handler's own
NoTickWaiting == pending = <<>>

AtLastStep == currentStepIndex >= Len(steps) - 1

\* C26: handlePlayPause invoked at the last step leaves currentStepIndex = 0
\* and isPlaying = TRUE; invoked at any other index it negates isPlaying and
\* leaves currentStepIndex unchanged; in both cases treeData, the decorated
\* tree and the steps are unchanged.  When an update of a timer callback is
\* rendered together with the handler's, the index still becomes 0 from the
\* last step, a running playback is still paused elsewhere, and the index
\* moves only by the queued ticks.
C26_PlayPauseReplaysOrToggles ==
  [][handlePlayPause =>
       /\ UNCHANGED <<treeData, d3Tree, steps>>
       /\ AtLastStep => currentStepIndex' = 0
       /\ AtLastStep /\ NoTickWaiting => isPlaying' = TRUE
       /\ ~AtLastStep /\ NoTickWaiting =>
            /\ isPlaying' = ~isPlaying
            /\ currentStepIndex' = currentStepIndex
       /\ ~AtLastStep /\ isPlaying => ~isPlaying'
       /\ ~AtLastStep =>
            /\ currentStepIndex' >= currentStepIndex
            /\ currentStepIndex' <= currentStepIndex + Len(pending)]_vars

\* the playback of the seven-node sample has been stopped by the timer at
\* the last step and its interval cleared: play/pause replays from here
C26_Witness ==
  /\ pc = "app"
  /\ Len(treeData) = 7
  /\ AtLastStep
  /\ ~isPlaying
  /\ ~timer.active
  /\ ~effectsDue
  /\ NoTickWaiting


---------------------------------------------------------------------------
(* C27: seek, reset, previous and next                                     *)

\* C27: handleSeek leaves isPlaying = FALSE and currentStepIndex at the step
\* asked for, handleReset leaves isPlaying = FALSE and currentStepIndex = 0;
\* handlePrevious takes 1 from currentStepIndex except at 0, where nothing
\* changes, handleNext adds 1 except at the last index, where nothing
\* changes, and neither changes isPlaying; none of the four changes
\* treeData, the decorated tree or the steps.  For previous and next the
\* values are those of a render with no update of a timer callback waiting.
C27_SeekResetPreviousNext ==
  /\ [][handleSeek =>
          /\ isPlaying' = FALSE
          /\ currentStepIndex' \in SeekTargets(Len(steps))
          /\ UNCHANGED <<treeData, d3Tree, steps>>]_vars
  /\ [][handleReset =>
          /\ isPlaying' = FALSE
          /\ currentStepIndex' = 0
          /\ UNCHANGED <<treeData, d3Tree, steps>>]_vars
  /\ [][handlePrevious =>
          /\ UNCHANGED <<treeData, d3Tree, steps>>
          /\ NoTickWaiting =>
               /\ isPlaying' = isPlaying
               /\ currentStepIndex' =
                    IF currentStepIndex = 0 THEN 0 ELSE currentStepIndex - 1]_vars
  /\ [][handleNext =>
          /\ UNCHANGED <<treeData, d3Tree, steps>>
          /\ NoTickWaiting =>
               /\ isPlaying' = isPlaying
               /\ currentStepIndex' =
                    IF AtLastStep THEN currentStepIndex ELSE currentStepIndex + 1]_vars

\* auto-play of the seven-node sample has reached the last step and is
\* still on: next changes nothing, previous goes one step back and both
\* keep it on, seek and reset turn it off
C27_Witness ==
  /\ pc = "app"
  /\ Len(treeData) = 7
  /\ AtLastStep
  /\ isPlaying
  /\ timer.active
  /\ NoTickWaiting


---------------------------------------------------------------------------
(* C28: applying text that is not a valid tree changes nothing but the     *)
(* error message                                                           *)

\* the text of the input field does not parse, or parses to an array that
\* validateTreeArray rejects
InputRejected ==
  LET parsed == parseArrayInput(inputValue)
  IN IF parsed.isNull THEN TRUE ELSE ~validateTreeArray(parsed.arr)

\* C28: handleApply on text that parseArrayInput cannot parse, or whose
\* array validateTreeArray rejects, sets the error message (the one of the
\* format for unparseable text, the one of the tree for a rejected array)
\* and changes neither treeData, the binary tree, the decorated tree, the
\* steps nor the text; with no update of a timer callback waiting to be
\* rendered, currentStepIndex and isPlaying are unchanged too, and a set
\* interval of a running auto-play stays set for the same step sequence.
C28_RejectedInputChangesNothing ==
  [][handleApply /\ InputRejected =>
       /\ error' = IF parseArrayInput(inputValue).isNull THEN FormatError ELSE InvalidError
       /\ UNCHANGED <<treeData, memoDeps, tree, d3Tree, steps, inputValue>>
       /\ isPlaying' => isPlaying
       /\ NoTickWaiting =>
            /\ UNCHANGED <<currentStepIndex, isPlaying>>
            /\ isPlaying /\ timer.active => timer' = timer
            /\ isPlaying => (timer'.active \/ effectsDue') /\ ~(timer'.active /\ timer'.len # Len(steps))]_vars

\* a running auto-play past its first step with the error of a rejected
\* array on display for the text in the field
C28_Witness ==
  /\ pc = "app"
  /\ error = InvalidError
  /\ InputRejected
  /\ isPlaying
  /\ timer.active
  /\ timer.len = Len(steps)
  /\ currentStepIndex > 1


---------------------------------------------------------------------------
(* C29: the current node of a step is a real node of the decorated tree    *)

\* id is the id of a node object of heap that is not a placeholder
IsRealNodeId(heap, id) ==
  \E n \in 1..Len(heap) : heap[n].id = id /\ ~heap[n].isNull /\ heap[n].val # Null

\* C29: in every step of the trace of the decorated tree, currentNodeId is
\* null or the id of a node object with isNull = FALSE and a numeric val; in
\* particular no recursion-enter, compare, update-diameter or recursion-exit
\* step has a placeholder as its current node.
C29_CurrentNodeIsRealNode ==
  Done =>
    \A k \in StepIdx :
      \/ steps[k].currentNodeId = NullId
      \/ IsRealNodeId(d3Tree.heap, steps[k].currentNodeId)


---------------------------------------------------------------------------
(* C30: the number of steps is a function of the number of node objects    *)

\* the steps after the root dispatch whose current node is node object n
StepsOfNode(heap, n) ==
  {k \in StepIdx : k > 2 /\ steps[k].currentNodeId = heap[n].id}

\* C30: the trace has 2 steps for an absent root and exactly 10 * n + 4 for
\* a decorated tree of n node objects, whatever their values and the shape:
\* the initial step, the root dispatch and the terminal step, 9 steps with
\* each node object as current node, and n + 1 steps of absent child
\* pointers.
C30_LengthIsTenPerNodePlusFour ==
  Done =>
    LET h == d3Tree.heap
        n == Len(h)
    IN IF d3Tree.root = NoNode
       THEN Len(steps) = 2
       ELSE /\ Len(steps) = 10 * n + 4
            /\ \A m \in 1..n : Cardinality(StepsOfNode(h, m)) = 9
            /\ Cardinality({k \in StepIdx : IsNullReturn(k)}) = n + 1
            /\ StepIdx = {1, 2, Len(steps)}
                           \cup {k \in StepIdx : IsNullReturn(k)}
                           \cup UNION {StepsOfNode(h, m) : m \in 1..n}

\* the trace of a decorated tree of five node objects, one of them a
\* placeholder, whose diameter did not grow at every node
C30_Witness ==
  /\ Done
  /\ Len(d3Tree.heap) = 5
  /\ \E m \in 1..5 : d3Tree.heap[m].isNull
  /\ Len(steps) = 54
  /\ \E k \in StepIdx :
       /\ IsSumCompare(k)
       /\ steps[k].animationData.compareLeft <= steps[k].animationData.compareRight
       /\ IsUpdate(k + 1)

====
